---- MODULE Spec2Model ----
(***************************************************************************)
(* DocSense document-processing pipeline: the text chunker and cleaner of  *)
(* backend/utils/cleaner.py and the prompt workflows of                    *)
(* backend/processors (json_convertor.py, summarizer.py).                  *)
(*                                                                         *)
(* Text is a sequence of one-character strings.  Python indices are kept   *)
(* 0-based in the state (start, end, break_point); only the access to a    *)
(* TLA+ sequence adds 1.                                                   *)
(***************************************************************************)
EXTENDS Integers, Sequences, FiniteSets, TLC

VARIABLES
    \* ---- chunk_text(text, chunk_size, overlap) ----
    ct_pc,        \* "call" | "loop" | "done"
    text,         \* argument text
    chunk_size,   \* argument chunk_size
    overlap,      \* argument overlap
    start,        \* local start
    chunks,       \* local chunks (the returned list once ct_pc = "done")
    windows,      \* history: one record per loop iteration
    \* ---- strip_markdown(text), applied once and then to its own result ----
    sm_pc,        \* "idle" | "call" | "once" | "twice"
    sm_text,      \* argument of the first application
    sm_once,      \* strip_markdown(sm_text)
    sm_twice,     \* strip_markdown(sm_once)
    \* ---- completion service (agent/llm.py) ----
    api_key,      \* GROQ_API_KEY is set in the environment
    \* ---- convert_to_json(document, max_retries) ----
    cj_pc,        \* "idle" | "call" | "loop" | "return" | "done" | "raised"
    cj_document,  \* argument document
    max_retries,  \* argument max_retries
    attempt,      \* loop variable; Unbound until the loop body runs once
    conversion_prompt,  \* local conversion_prompt
    result,       \* local result (None until a response parses)
    content,      \* local content; Unbound until a response arrives
    last_error,   \* local last_error
    cj_calls,     \* history: the llm.invoke calls, prompt and outcome
    cj_return,    \* the returned dictionary once cj_pc = "done"
    \* ---- summarize_document(document) ----
    sz_pc,        \* "idle" | "call" | "consistency" | "final" | "done" | "raised"
    sz_input,     \* argument document
    sz_document,  \* local document after clean_text
    initial_summary,    \* local initial_summary
    consistency_check,  \* content of local consistency_check
    sz_calls,     \* history: the llm.invoke calls, step, prompt fields and outcome
    sz_return,    \* the returned dictionary once sz_pc = "done"
    \* ---- classify_document(document) ----
    cl_pc,        \* "idle" | "call" | "reeval" | "indicators" | "done" | "raised"
    cl_document,  \* argument document
    category,     \* local category
    confidence,   \* local confidence
    cl_calls,     \* history: the llm.invoke calls, step, prompt fields and outcome
    cl_return,    \* the returned dictionary once cl_pc = "done"
    \* ---- extract_information(document, extraction_type) ----
    ex_pc,        \* "idle" | "call" | "validate" | "done" | "raised"
    ex_document,  \* argument document
    extraction_type,  \* argument extraction_type
    extracted,    \* local extracted: the fields in insertion order
    ex_calls,     \* history: the llm.invoke calls, step, prompt fields and outcome
    ex_return,    \* the returned dictionary once ex_pc = "done"
    \* ---- compare_documents(doc1, doc2) ----
    cmp_pc,       \* "idle" | "call" | "loop" | "done" | "raised"
    cmp_doc1,     \* argument doc1
    cmp_doc2,     \* argument doc2
    chunks1,      \* local chunks1
    chunks2,      \* local chunks2
    cmp_i,        \* loop variable i
    additions,    \* local additions
    deletions,    \* local deletions
    modifications,  \* local modifications
    cmp_calls,    \* history: the llm.invoke calls, step, prompt fields and outcome
    cmp_return,   \* the returned dictionary once cmp_pc = "done"
    \* ---- calculate_similarity(doc1, doc2, chunks1, chunks2) ----
    sim_pc,       \* "idle" | "call" | "done"
    sim_doc1,     \* argument doc1
    sim_doc2,     \* argument doc2
    similarity_score  \* the returned score once sim_pc = "done"

chunkVars == <<ct_pc, text, chunk_size, overlap, start, chunks, windows>>
stripVars == <<sm_pc, sm_text, sm_once, sm_twice>>

convVars == <<cj_pc, cj_document, max_retries, attempt, conversion_prompt,
              result, content, last_error, cj_calls, cj_return>>

sumVars == <<sz_pc, sz_input, sz_document, initial_summary, consistency_check,
             sz_calls, sz_return>>

classVars == <<cl_pc, cl_document, category, confidence, cl_calls, cl_return>>

extractVars == <<ex_pc, ex_document, extraction_type, extracted, ex_calls, ex_return>>

compareVars == <<cmp_pc, cmp_doc1, cmp_doc2, chunks1, chunks2, cmp_i, additions, deletions,
                 modifications, cmp_calls, cmp_return>>

simVars == <<sim_pc, sim_doc1, sim_doc2, similarity_score>>

vars == <<chunkVars, stripVars, api_key, convVars, sumVars, classVars, extractVars,
          compareVars, simVars>>

notChunk == <<stripVars, convVars, api_key, sumVars, classVars, extractVars,
              compareVars, simVars>>
notStrip == <<chunkVars, convVars, api_key, sumVars, classVars, extractVars,
              compareVars, simVars>>
notConv == <<chunkVars, stripVars, sumVars, classVars, extractVars,
             compareVars, simVars>>
notSum == <<chunkVars, stripVars, convVars, classVars, extractVars,
            compareVars, simVars>>
notClass == <<chunkVars, stripVars, convVars, sumVars, extractVars,
              compareVars, simVars>>
notExtract == <<chunkVars, stripVars, convVars, sumVars, classVars,
                compareVars, simVars>>
notCompare == <<chunkVars, stripVars, convVars, sumVars, classVars,
                extractVars, simVars>>
notSim == <<chunkVars, stripVars, api_key, convVars, sumVars, classVars,
            extractVars, compareVars>>

----------------------------------------------------------------------------
(* Bounds of the model *)

MaxTextLen == 6
MaxChunkSize == 5
MaxChunks == 9
MaxMarkdownLen == 4
MaxRetries == 3
LongDocLen == 1002
MaxSummaryDocLen == 3
LongSummaryDocLen == 5002
LongClassifyDocLen == 3002
LongCompareDocLen == 4502
MaxSimilarityDocLen == 3

(* Characters of the model's texts: a letter, the two sentence breaks of   *)
(* chunk_text ('.' and newline) and a blank.                               *)
Alphabet == {"a", ".", " ", "\n"}

(* the characters of the longest texts: a letter and a sentence end *)
SentenceAlphabet == {"a", "."}

----------------------------------------------------------------------------
(* Python built-ins used by the source *)

Whitespace == {" ", "\n", "\t", "\r"}

Max2(a, b) == IF a >= b THEN a ELSE b
Min2(a, b) == IF a <= b THEN a ELSE b

(* s[a:b] for integers a, b (negative indices count from the end and are   *)
(* clamped, as Python does).                                               *)
SliceIndex(n, i) == IF i < 0 THEN Max2(i + n, 0) ELSE Min2(i, n)

PySlice(s, a, b) ==
    LET lo == SliceIndex(Len(s), a)
        hi == SliceIndex(Len(s), b)
    IN  IF lo < hi THEN SubSeq(s, lo + 1, hi) ELSE << >>

(* s.rfind(c): highest 0-based index of c in s, -1 when absent *)
rfind(s, c) ==
    LET hits == {i \in 1..Len(s) : s[i] = c}
    IN  IF hits = {} THEN -1
        ELSE (CHOOSE i \in hits : \A j \in hits : j <= i) - 1

(* s.strip() *)
strip(s) ==
    IF \A i \in 1..Len(s) : s[i] \in Whitespace THEN << >>
    ELSE SubSeq(s, CHOOSE i \in 1..Len(s) :
                       /\ s[i] \notin Whitespace
                       /\ \A j \in 1..(i - 1) : s[j] \in Whitespace,
                   CHOOSE i \in 1..Len(s) :
                       /\ s[i] \notin Whitespace
                       /\ \A j \in (i + 1)..Len(s) : s[j] \in Whitespace)

----------------------------------------------------------------------------
(* chunk_text, cleaner.py:33-67 *)

(* cleaner.py:57-59 *)
BreakPoint(chunk) == Max2(rfind(chunk, "."), rfind(chunk, "\n"))

(* cleaner.py:60 *)
BreakFires(st, size, break_point) == break_point > st + size \div 2

(* cleaner.py:56-60: the sentence-boundary adjustment applies *)
Adjusts(t, st, size) ==
    /\ st + size < Len(t)
    /\ BreakFires(st, size, BreakPoint(PySlice(t, st, st + size)))

(* cleaner.py:52-62 with a window one character longer than chunk_size *)
WindowEndInclusive(t, st, size) ==
    IF Adjusts(t, st, size)
    THEN st + BreakPoint(PySlice(t, st, st + size)) + 1
    ELSE st + size + 1

(* cleaner.py:52-62: the window end of the iteration starting at st *)
WindowEnd(t, st, size) ==
    IF Adjusts(t, st, size)
    THEN st + BreakPoint(PySlice(t, st, st + size)) + 1
    ELSE st + size

(* cleaner.py:53, 61: the characters of the iteration's chunk before strip *)
WindowChunk(t, st, size) == PySlice(t, st, WindowEnd(t, st, size))

NextStartSkipsOne(end, ov) == end - ov + 1

(* cleaner.py:65 *)
NextStart(end, ov) == end - ov

(* cleaner.py:45 *)
FitsOneChunk(t, size) == Len(t) <= size

(* cleaner.py:46 *)
WholeTextResult(t) == <<t>>

(* cleaner.py:64 *)
EmittedChunk(chunk) == strip(chunk)

RECURSIVE SeqsUpTo(_, _)
SeqsUpTo(S, n) ==
    IF n = 0 THEN {<< >>}
    ELSE LET shorter == SeqsUpTo(S, n - 1)
         IN  shorter \cup {Append(s, c) : s \in {x \in shorter : Len(x) = n - 1}, c \in S}

IdleChunk ==
    /\ ct_pc = "idle"
    /\ text = << >>
    /\ chunk_size = 1
    /\ overlap = 0
    /\ start = 0
    /\ chunks = << >>
    /\ windows = << >>

IdleStrip ==
    /\ sm_pc = "idle"
    /\ sm_text = << >>
    /\ sm_once = << >>
    /\ sm_twice = << >>

None == [type |-> "None"]

(* a local name and whether the code has assigned it ('attempt' in locals()) *)
Bound(v) == [bound |-> TRUE, value |-> v]
NotBound == [bound |-> FALSE, value |-> 0]
NoContent == [bound |-> FALSE, value |-> << >>]

IdleConv ==
    /\ cj_pc = "idle"
    /\ cj_document = << >>
    /\ max_retries = 0
    /\ attempt = NotBound
    /\ conversion_prompt = None
    /\ result = None
    /\ content = NoContent
    /\ last_error = None
    /\ cj_calls = << >>
    /\ cj_return = None

IdleSum ==
    /\ sz_pc = "idle"
    /\ sz_input = << >>
    /\ sz_document = << >>
    /\ initial_summary = << >>
    /\ consistency_check = << >>
    /\ sz_calls = << >>
    /\ sz_return = None

(* classifier.py:53: category = None, a value that is no sequence of characters *)
NoCategory == <<"None">>

IdleClass ==
    /\ cl_pc = "idle"
    /\ cl_document = << >>
    /\ category = NoCategory
    /\ confidence = "medium"
    /\ cl_calls = << >>
    /\ cl_return = None

IdleExtract ==
    /\ ex_pc = "idle"
    /\ ex_document = << >>
    /\ extraction_type = "all"
    /\ extracted = << >>
    /\ ex_calls = << >>
    /\ ex_return = None

IdleCompare ==
    /\ cmp_pc = "idle"
    /\ cmp_doc1 = << >>
    /\ cmp_doc2 = << >>
    /\ chunks1 = << >>
    /\ chunks2 = << >>
    /\ cmp_i = 0
    /\ additions = << >>
    /\ deletions = << >>
    /\ modifications = << >>
    /\ cmp_calls = << >>
    /\ cmp_return = None

IdleSim ==
    /\ sim_pc = "idle"
    /\ sim_doc1 = << >>
    /\ sim_doc2 = << >>
    /\ similarity_score = [num |-> 0, den |-> 1]

InitChunk ==
    /\ IdleStrip
    /\ IdleConv
    /\ IdleClass
    /\ IdleExtract
    /\ IdleCompare
    /\ IdleSim
    /\ IdleSum
    /\ api_key = TRUE
    /\ ct_pc = "call"
    /\ text \in SeqsUpTo(Alphabet, MaxTextLen)
                \cup {s \in SeqsUpTo(SentenceAlphabet, MaxTextLen + 1) :
                            Len(s) = MaxTextLen + 1}
    /\ chunk_size \in 1..MaxChunkSize
    /\ overlap \in 0..(chunk_size - 1)
    /\ start = 0
    /\ chunks = << >>
    /\ windows = << >>

(* cleaner.py:45-46 *)
ChunkReturnWhole ==
    /\ ct_pc = "call"
    /\ FitsOneChunk(text, chunk_size)
    /\ chunks' = WholeTextResult(text)
    /\ ct_pc' = "done"
    /\ UNCHANGED <<text, chunk_size, overlap, start, windows>>
    /\ UNCHANGED notChunk

(* cleaner.py:48-49 *)
ChunkEnterLoop ==
    /\ ct_pc = "call"
    /\ ~FitsOneChunk(text, chunk_size)
    /\ chunks' = << >>
    /\ start' = 0
    /\ ct_pc' = "loop"
    /\ UNCHANGED <<text, chunk_size, overlap, windows>>
    /\ UNCHANGED notChunk

(* cleaner.py:51-65: one iteration of the while loop *)
ChunkLoopBody ==
    /\ ct_pc = "loop"
    /\ start < Len(text)
    /\ Len(chunks) < MaxChunks
    /\ LET end == WindowEnd(text, start, chunk_size)
           chunk == WindowChunk(text, start, chunk_size)
       IN  /\ chunks' = Append(chunks, EmittedChunk(chunk))
           /\ windows' = Append(windows,
                  [start |-> start, end |-> end,
                   adjusted |-> Adjusts(text, start, chunk_size)])
           /\ start' = NextStart(end, overlap)
    /\ UNCHANGED <<ct_pc, text, chunk_size, overlap>>
    /\ UNCHANGED notChunk

(* cleaner.py:51, 67: the loop condition fails, the list is returned *)
ChunkReturn ==
    /\ ct_pc = "loop"
    /\ ~(start < Len(text))
    /\ ct_pc' = "done"
    /\ UNCHANGED <<text, chunk_size, overlap, start, chunks, windows>>
    /\ UNCHANGED notChunk

NextChunk == ChunkReturnWhole \/ ChunkEnterLoop \/ ChunkLoopBody \/ ChunkReturn

SpecChunk == InitChunk /\ [][NextChunk]_vars

----------------------------------------------------------------------------
(* Properties of chunk_text *)

(* 0-based character positions of the text that the slice text[w.start:w.end] holds *)
WindowPositions(w) ==
    {p \in 0..(Len(text) - 1) :
        /\ SliceIndex(Len(text), w.start) <= p
        /\ p < SliceIndex(Len(text), w.end)}

CoveredPositions == UNION {WindowPositions(windows[i]) : i \in 1..Len(windows)}

(* C4: for a text longer than chunk_size and 0 <= overlap < chunk_size the *)
(* window start strictly advances on every iteration of the loop, so the   *)
(* loop terminates.                                                        *)
C4_StartStrictlyAdvances == [][ChunkLoopBody => start' > start]_vars

(* C5: for a text with len(text) <= chunk_size the result is exactly one   *)
(* chunk, equal to the input trimmed of leading and trailing whitespace.   *)
C5_ShortTextOneTrimmedChunk ==
    (ct_pc = "done" /\ Len(text) <= chunk_size) => chunks = <<strip(text)>>

(* C6: for a non-empty text no chunk of the returned sequence is the empty *)
(* string.                                                                 *)
C6_NoEmptyChunk ==
    (ct_pc = "done" /\ text # << >>) =>
        \A i \in 1..Len(chunks) : chunks[i] # << >>

(* C7: each window starts no later than the end of the window before it   *)
(* (no gap), and the windows [start, end) of a returned sequence cover     *)
(* every character position of the input (a text that fits one chunk is    *)
(* returned whole).                                                        *)
C7_WindowsCoverText ==
    /\ \A i \in 1..(Len(windows) - 1) : windows[i + 1].start <= windows[i].end
    /\ ct_pc = "done" =>
          IF Len(text) <= chunk_size
          THEN chunks = <<text>>
          ELSE CoveredPositions = 0..(Len(text) - 1)

(* C7 witness: a returned run of at least three windows, one of them       *)
(* shortened at a sentence break, over a text with a blank in it.          *)
C7_Witness ==
    /\ ct_pc = "done"
    /\ Len(windows) >= 3
    /\ \E i \in 1..Len(windows) : windows[i].adjusted
    /\ \E i \in 1..Len(text) : text[i] = " "
    /\ CoveredPositions = 0..(Len(text) - 1)

(* C8: each window after the first starts at previous_end - overlap, and   *)
(* two consecutive windows share exactly overlap characters of the input *)
(* whenever no sentence-boundary adjustment fired on the earlier one, the  *)
(* final chunk included.                                                   *)
C8_ConsecutiveChunksShareOverlap ==
    \A i \in 1..(Len(windows) - 1) :
        /\ windows[i + 1].start = windows[i].end - overlap
        /\ ~windows[i].adjusted =>
               Cardinality(WindowPositions(windows[i])
                           \cap WindowPositions(windows[i + 1])) = overlap

----------------------------------------------------------------------------
(* strip_markdown, cleaner.py:15-30 *)

MarkdownAlphabet == {"*", "_", "#", "-", "1", ".", " ", "\n", "a"}

Digits == {"0", "1", "2", "3", "4", "5", "6", "7", "8", "9"}
ListMarkers == {"-", "*", "+"}

(* first index >= i at which s holds a character outside S (Len(s)+1 when none) *)
RunEnd(s, i, S) ==
    IF i > Len(s) THEN Len(s) + 1
    ELSE CHOOSE j \in i..(Len(s) + 1) :
             /\ j = Len(s) + 1 \/ s[j] \notin S
             /\ \A k \in i..(j - 1) : s[k] \in S

(* first index >= i at which s holds the character c (Len(s)+1 when none) *)
FindChar(s, i, c) ==
    LET hits == {j \in i..Len(s) : s[j] = c}
    IN  IF hits = {} THEN Len(s) + 1
        ELSE CHOOSE j \in hits : \A k \in hits : j <= k

(* ^ under re.MULTILINE: the position is the start of the string or follows a newline *)
AtLineStart(s, i) == i = 1 \/ s[i - 1] = "\n"

AllAre(s, from, to, c) == to <= Len(s) /\ \A j \in from..to : s[j] = c

(* cleaner.py:19-22: m{w}([^m]+)m{w} matched at index i; the value is the  *)
(* index after the match, 0 when the pattern does not match at i.          *)
EmphasisEnd(s, i, m, w) ==
    LET inner == i + w
        close == FindChar(s, inner, m)
    IN  IF /\ AllAre(s, i, i + w - 1, m)
           /\ close > inner
           /\ AllAre(s, close, close + w - 1, m)
        THEN close + w
        ELSE 0

(* cleaner.py:24: ^#+\s+ *)
HeaderEnd(s, i) ==
    LET ws == RunEnd(s, i, {"#"})
        e == RunEnd(s, ws, Whitespace)
    IN  IF AtLineStart(s, i) /\ ws > i /\ e > ws THEN e ELSE 0

(* cleaner.py:26: ^\s*[-*+]\s+ *)
ListMarkerEnd(s, i) ==
    LET mk == RunEnd(s, i, Whitespace)
        e == RunEnd(s, mk + 1, Whitespace)
    IN  IF /\ AtLineStart(s, i)
           /\ mk <= Len(s)
           /\ s[mk] \in ListMarkers
           /\ e > mk + 1
        THEN e
        ELSE 0

(* cleaner.py:27: ^\s*\d+\.\s+ *)
NumberedEnd(s, i) ==
    LET dg == RunEnd(s, i, Whitespace)
        dot == RunEnd(s, dg, Digits)
        e == RunEnd(s, dot + 1, Whitespace)
    IN  IF /\ AtLineStart(s, i)
           /\ dot > dg
           /\ dot <= Len(s)
           /\ s[dot] = "."
           /\ e > dot + 1
        THEN e
        ELSE 0

(* cleaner.py:29: \n{3,} *)
NewlinesEnd(s, i) ==
    LET e == RunEnd(s, i, {"\n"})
    IN  IF e >= i + 3 THEN e ELSE 0

(* the seven substitutions of strip_markdown, in source order *)
MatchEnd(pass, s, i) ==
    CASE pass = "bold_star"  -> EmphasisEnd(s, i, "*", 2)
      [] pass = "ital_star"  -> EmphasisEnd(s, i, "*", 1)
      [] pass = "bold_under" -> EmphasisEnd(s, i, "_", 2)
      [] pass = "ital_under" -> EmphasisEnd(s, i, "_", 1)
      [] pass = "header"     -> HeaderEnd(s, i)
      [] pass = "list"       -> ListMarkerEnd(s, i)
      [] pass = "numbered"   -> NumberedEnd(s, i)
      [] pass = "newlines"   -> NewlinesEnd(s, i)

(* the replacement of the match s[i..e-1]: group 1, nothing, or two newlines *)
Replacement(pass, s, i, e) ==
    CASE pass \in {"bold_star", "bold_under"} -> SubSeq(s, i + 2, e - 3)
      [] pass \in {"ital_star", "ital_under"} -> SubSeq(s, i + 1, e - 2)
      [] pass \in {"header", "list", "numbered"} -> << >>
      [] pass = "newlines" -> <<"\n", "\n">>

(* re.sub: leftmost non-overlapping matches over the original string *)
RECURSIVE SubFrom(_, _, _)
SubFrom(pass, s, i) ==
    LET ends == [j \in i..Len(s) |-> MatchEnd(pass, s, j)]
    IN  IF \A j \in i..Len(s) : ends[j] = 0
        THEN SubSeq(s, i, Len(s))
        ELSE LET m == CHOOSE j \in i..Len(s) :
                          /\ ends[j] > 0
                          /\ \A k \in i..(j - 1) : ends[k] = 0
             IN  SubSeq(s, i, m - 1) \o Replacement(pass, s, m, ends[m])
                     \o SubFrom(pass, s, ends[m])

re_sub(pass, s) == SubFrom(pass, s, 1)

(* cleaner.py:19-29: the substitutions, in source order *)
Passes == <<"bold_star", "ital_star", "bold_under", "ital_under",
            "header", "list", "numbered", "newlines">>

(* s after the first n substitutions *)
RECURSIVE SubPasses(_, _)
SubPasses(s, n) ==
    IF n = 0 THEN s ELSE re_sub(Passes[n], SubPasses(s, n - 1))

(* cleaner.py:15-30 *)
strip_markdown(s) == strip(SubPasses(s, Len(Passes)))

InitStrip ==
    /\ IdleChunk
    /\ IdleConv
    /\ IdleClass
    /\ IdleExtract
    /\ IdleCompare
    /\ IdleSim
    /\ IdleSum
    /\ api_key = TRUE
    /\ sm_pc = "call"
    /\ sm_text \in SeqsUpTo(MarkdownAlphabet, MaxMarkdownLen)
    /\ sm_once = << >>
    /\ sm_twice = << >>

(* first application *)
StripOnce ==
    /\ sm_pc = "call"
    /\ sm_once' = strip_markdown(sm_text)
    /\ sm_pc' = "once"
    /\ UNCHANGED <<sm_text, sm_twice>>
    /\ UNCHANGED notStrip

(* second application, to the result of the first *)
StripTwice ==
    /\ sm_pc = "once"
    /\ sm_twice' = strip_markdown(sm_once)
    /\ sm_pc' = "twice"
    /\ UNCHANGED <<sm_text, sm_once>>
    /\ UNCHANGED notStrip

NextStrip == StripOnce \/ StripTwice

SpecStrip == InitStrip /\ [][NextStrip]_vars

(* C9: strip_markdown is idempotent: applying it to its own result changes *)
(* nothing.                                                                *)
C9_StripMarkdownIdempotent == sm_pc = "twice" => sm_twice = sm_once

----------------------------------------------------------------------------
(* convert_to_json, json_convertor.py:13-141                               *)
(*                                                                         *)
(* Prompts, responses and messages are sequences of tokens; a document is  *)
(* a sequence of characters.  A brace is always a token of its own.        *)

MainContentLimit == 1000
RawTextLimit == 500
PreviewLimit == 4000

(* s[:n] *)
Take(s, n) == PySlice(s, 0, n)

DocLong ==
    [i \in 1..LongDocLen |->
        IF i <= RawTextLimit THEN "a" ELSE IF i <= MainContentLimit THEN "b" ELSE "c"]

Documents == {<< >>, <<"a", "b">>, <<"{", "a", "}">>, DocLong}

(* the token of a markdown code fence, three backquotes *)
Fence == "fence"

(* responses of the completion service *)
RespFull == <<"{", "\"main_content\"", ":", "\"x\"", "}">>
RespNoMain == <<"{", "\"title\"", ":", "\"t\"", "}">>
RespEmptyObject == <<"{", "}">>
RespProse == <<" ", "sorry", "\n">>
RespBadBraces == <<"{", "bad", "}">>
RespListOfMain == <<"[", "\"main_content\"", "]">>
RespInt == <<"42">>
RespList == <<"[", "\"t\"", "]">>
RespWrapped == <<"Here", " ", "{", "\"main_content\"", ":", "\"x\"", "}", " ", "ok">>
RespFenced == <<Fence, "json", "\n", "{", "\"title\"", ":", "\"t\"", "}", "\n", Fence, "\n">>

Responses == {RespFull, RespNoMain, RespEmptyObject, RespProse, RespBadBraces,
              RespListOfMain, RespInt, RespList, RespWrapped, RespFenced}

ServiceFailureMessage == <<"rate limit exceeded">>

(* what one llm.invoke does: it returns a text or raises *)
ServiceOutcomes ==
    {[ok |-> TRUE, text |-> r] : r \in Responses}
        \cup {[ok |-> FALSE, text |-> ServiceFailureMessage]}

HasBrace(s) == \E i \in 1..Len(s) : s[i] \in {"{", "}"}

(* json_convertor.py:58: the pattern  fence (?:json)? \s* ( \{ .*? \} ) \s* fence  *)
(* matched with its opening fence at index i; the value is <<j, k>>, the   *)
(* bounds of group 1, or << >> when the pattern does not match at i.       *)
FencedAt(c, i) ==
    LET afterTag == IF i + 1 <= Len(c) /\ c[i + 1] = "json" THEN i + 2 ELSE i + 1
        open == RunEnd(c, afterTag, Whitespace)
        closes == {k \in (open + 1)..Len(c) :
                      /\ c[k] = "}"
                      /\ LET fence == RunEnd(c, k + 1, Whitespace)
                         IN  fence <= Len(c) /\ c[fence] = Fence}
    IN  IF c[i] = Fence /\ open <= Len(c) /\ c[open] = "{" /\ closes # {}
        THEN <<open, CHOOSE k \in closes : \A m \in closes : k <= m>>
        ELSE << >>

(* json_convertor.py:54-65: strip, then the fenced block, else the span    *)
(* from the first '{' to the last '}', else the text as it is.             *)
ExtractJson(response) ==
    LET c == strip(response)
        fences == {i \in 1..Len(c) : FencedAt(c, i) # << >>}
        first == FindChar(c, 1, "{")
        last == rfind(c, "}") + 1
    IN  IF fences # {}
        THEN LET g == FencedAt(c, CHOOSE i \in fences : \A m \in fences : i <= m)
             IN  SubSeq(c, g[1], g[2])
        ELSE IF first <= Len(c) /\ last > first
             THEN SubSeq(c, first, last)
             ELSE c

Dict(items) == [type |-> "dict", items |-> items]
List(items) == [type |-> "list", items |-> items]
Number(n) == [type |-> "int", items |-> n]

JSONDecodeError(msg) == [class |-> "JSONDecodeError", message |-> msg]

(* json_convertor.py:68: json.loads on the contents the model's responses  *)
(* extract to; any other text is not JSON.                                 *)
json_loads(c) ==
    CASE c = <<"{", "\"main_content\"", ":", "\"x\"", "}">> ->
             [ok |-> TRUE, value |-> Dict([main_content |-> <<"x">>])]
      [] c = <<"{", "\"title\"", ":", "\"t\"", "}">> ->
             [ok |-> TRUE, value |-> Dict([title |-> <<"t">>])]
      [] c = <<"{", "}">> ->
             [ok |-> TRUE, value |-> Dict(<< >>)]
      [] c = <<"[", "\"main_content\"", "]">> ->
             [ok |-> TRUE, value |-> List(<<"main_content">>)]
      [] c = <<"[", "\"t\"", "]">> ->
             [ok |-> TRUE, value |-> List(<<"t">>)]
      [] c = <<"42">> ->
             [ok |-> TRUE, value |-> Number(42)]
      [] OTHER ->
             [ok |-> FALSE,
              value |-> JSONDecodeError(<<"Expecting value: line 1 column 1 (char 0)">>)]

(* json_convertor.py:72: 'field not in result' raises for a number *)
MembershipRaises(v) == v.type = "int"

(* json_convertor.py:72: 'field in result' *)
Contains(v, field) ==
    CASE v.type = "dict" -> field \in DOMAIN v.items
      [] v.type = "list" -> \E i \in 1..Len(v.items) : v.items[i] = field
      [] OTHER -> FALSE

(* json_convertor.py:71-72 *)
MissingFields(v) == IF Contains(v, "main_content") THEN << >> ELSE <<"main_content">>

(* len(result), json_convertor.py:139 *)
PyLen(v) ==
    CASE v.type = "dict" -> Cardinality(DOMAIN v.items)
      [] v.type = "list" -> Len(v.items)

(* json.dumps(v, indent=2) opens a dict with '{' *)
DumpsHasBrace(v) == v.type = "dict"

(* json_convertor.py:26 *)
DocumentPreview(d) == IF Len(d) > PreviewLimit THEN Take(d, PreviewLimit) ELSE d

Prompt(template, doc, missing, previous, invalid, error) ==
    [template |-> template, document |-> doc, missing |-> missing,
     previous_json |-> previous, invalid_json |-> invalid, error |-> error]

(* json_convertor.py:29-43: the template, its {document} field not yet filled *)
InitialPrompt == Prompt("conversion", << >>, << >>, None, << >>, << >>)

(* json_convertor.py:78-93 *)
RetryPrompt(missing, doc, previous) == Prompt("retry", doc, missing, previous, << >>, << >>)

(* json_convertor.py:99-111 *)
FixPrompt(invalid, error) == Prompt("fix", << >>, << >>, None, invalid, error.message)

(* json_convertor.py:51: conversion_prompt.format(document=...) raises on  *)
(* a brace that is not the {document} field.  Only the rewritten prompts   *)
(* can hold one: they are formatted text carrying a document, a JSON dump  *)
(* or a response.  (The model's texts hold neither a doubled brace nor the *)
(* text {document}, the two brace forms str.format accepts.)               *)
FormatRaises(p) ==
    CASE p.template = "conversion" -> FALSE
      [] p.template = "retry" -> HasBrace(p.document) \/ DumpsHasBrace(p.previous_json)
      [] p.template = "fix" -> HasBrace(p.invalid_json) \/ HasBrace(p.error)

FormatError == [class |-> "KeyError", message |-> <<"format field">>]

(* json_convertor.py:51: the message that is sent *)
FormattedPrompt(p, preview) ==
    IF p.template = "conversion"
    THEN Prompt("conversion", preview, << >>, None, << >>, << >>)
    ELSE p

TypeError == [class |-> "TypeError", message |-> <<"argument of type 'int' is not iterable">>]

ServiceError(msg) == [class |-> "ServiceError", message |-> msg]

ParseFallbackShort(d) ==
    Dict([main_content |-> Take(d, RawTextLimit),
          error |-> <<"Failed to parse structured JSON">>,
          raw_text |-> Take(d, RawTextLimit)])

(* json_convertor.py:114-118 *)
ParseFallback(d) ==
    Dict([main_content |-> Take(d, MainContentLimit),
          error |-> <<"Failed to parse structured JSON">>,
          raw_text |-> Take(d, RawTextLimit)])

(* json_convertor.py:124-127 *)
FailureFallback(d, e) ==
    Dict([main_content |-> Take(d, MainContentLimit),
          error |-> <<"Conversion failed: ">> \o e.message])

(* json_convertor.py:131-134 *)
NoResultFallback(d) ==
    Dict([main_content |-> Take(d, MainContentLimit),
          error |-> <<"Failed to convert document to JSON">>])

(* json_convertor.py:97, 123: this is the last attempt *)
IsLastAttempt(a, retries) == a = retries - 1

RetriesUsedZeroBased(a, retries) == IF a.bound THEN Min2(a.value, retries) ELSE 1

(* json_convertor.py:140 *)
RetriesUsed(a, retries) == IF a.bound THEN Min2(a.value + 1, retries) ELSE 1


InitConv ==
    /\ IdleChunk
    /\ IdleStrip
    /\ IdleClass
    /\ IdleExtract
    /\ IdleCompare
    /\ IdleSim
    /\ IdleSum
    /\ api_key \in BOOLEAN
    /\ cj_pc = "call"
    /\ cj_document \in Documents
    /\ max_retries \in 0..MaxRetries
    /\ attempt = NotBound
    /\ conversion_prompt = None
    /\ result = None
    /\ content = NoContent
    /\ last_error = None
    /\ cj_calls = << >>
    /\ cj_return = None

(* json_convertor.py:24, llm.py:29-31: get_llm raises without a credential *)
ConvertNoCredentialFallback ==
    /\ cj_pc = "call"
    /\ ~api_key
    /\ cj_pc' = "return"
    /\ UNCHANGED <<cj_document, max_retries, attempt, conversion_prompt, result,
                   content, last_error, cj_calls, cj_return>>
    /\ UNCHANGED <<api_key, notConv>>

ConvertNoCredential ==
    /\ cj_pc = "call"
    /\ ~api_key
    /\ cj_pc' = "raised"
    /\ UNCHANGED <<cj_document, max_retries, attempt, conversion_prompt, result,
                   content, last_error, cj_calls, cj_return>>
    /\ UNCHANGED <<api_key, notConv>>

(* json_convertor.py:24-46: up to the loop *)
ConvertEnter ==
    /\ cj_pc = "call"
    /\ api_key
    /\ conversion_prompt' = InitialPrompt
    /\ result' = None
    /\ last_error' = None
    /\ cj_pc' = IF max_retries > 0 THEN "loop" ELSE "return"
    /\ UNCHANGED <<cj_document, max_retries, attempt, content, cj_calls, cj_return>>
    /\ UNCHANGED <<api_key, notConv>>

(* the index the for statement of json_convertor.py:48 binds next *)
NextAttempt == IF attempt.bound THEN attempt.value + 1 ELSE 0

(* where the loop goes after an iteration: out on break or exhaustion *)
AfterIteration(a, broke) ==
    IF broke \/ a + 1 >= max_retries THEN "return" ELSE "loop"

(* json_convertor.py:121-128 with the failure raised to the caller on the  *)
(* last attempt                                                            *)
OnExceptionRaisedOnLastAttempt(a, e, res, cont) ==
    /\ last_error' = e.message
    /\ conversion_prompt' = conversion_prompt
    /\ content' = cont
    /\ result' = res
    /\ cj_pc' = IF IsLastAttempt(a, max_retries) THEN "raised" ELSE "loop"

(* json_convertor.py:121-128: except Exception *)
OnException(a, e, res, cont) ==
    /\ last_error' = e.message
    /\ conversion_prompt' = conversion_prompt
    /\ content' = cont
    /\ result' = IF IsLastAttempt(a, max_retries)
                 THEN FailureFallback(cj_document, e)
                 ELSE res
    /\ cj_pc' = AfterIteration(a, IsLastAttempt(a, max_retries))

(* json_convertor.py:95-119: except json.JSONDecodeError *)
OnDecodeError(a, e, cont) ==
    /\ last_error' = e.message
    /\ content' = cont
    /\ IF a < max_retries - 1
       THEN /\ conversion_prompt' = FixPrompt(cont.value, e)
            /\ result' = result
            /\ cj_pc' = AfterIteration(a, FALSE)
       ELSE /\ conversion_prompt' = conversion_prompt
            /\ result' = ParseFallback(cj_document)
            /\ cj_pc' = AfterIteration(a, TRUE)

(* json_convertor.py:67-93 with the break of line 75 left out *)
OnParsedWithoutBreak(a, v, cont) ==
    IF MembershipRaises(v)
    THEN OnException(a, TypeError, v, cont)
    ELSE /\ result' = v
         /\ content' = cont
         /\ last_error' = last_error
         /\ conversion_prompt' = conversion_prompt
         /\ cj_pc' = AfterIteration(a, FALSE)

(* json_convertor.py:67-93: the response parsed to v *)
OnParsed(a, v, cont) ==
    IF MembershipRaises(v)
    THEN OnException(a, TypeError, v, cont)
    ELSE /\ result' = v
         /\ content' = cont
         /\ last_error' = last_error
         /\ IF MissingFields(v) = << >>
            THEN /\ conversion_prompt' = conversion_prompt
                 /\ cj_pc' = AfterIteration(a, TRUE)
            ELSE /\ conversion_prompt' =
                        RetryPrompt(MissingFields(v), DocumentPreview(cj_document), v)
                 /\ cj_pc' = AfterIteration(a, FALSE)

(* json_convertor.py:48-128: an iteration whose prompt cannot be formatted; *)
(* llm.invoke is not reached.                                              *)
ConvertAttemptFormatFails ==
    /\ cj_pc = "loop"
    /\ FormatRaises(conversion_prompt)
    /\ attempt' = Bound(NextAttempt)
    /\ OnException(NextAttempt, FormatError, result, content)
    /\ UNCHANGED <<cj_document, max_retries, cj_calls, cj_return>>
    /\ UNCHANGED <<api_key, notConv>>

(* json_convertor.py:48-128: an iteration that calls the completion service *)
ConvertAttempt ==
    /\ cj_pc = "loop"
    /\ ~FormatRaises(conversion_prompt)
    /\ attempt' = Bound(NextAttempt)
    /\ \E outcome \in ServiceOutcomes :
          LET sent == FormattedPrompt(conversion_prompt, DocumentPreview(cj_document))
              cont == Bound(ExtractJson(outcome.text))
              parsed == json_loads(cont.value)
          IN  /\ cj_calls' = Append(cj_calls,
                     [attempt |-> NextAttempt, prompt |-> sent, outcome |-> outcome])
              /\ IF ~outcome.ok
                 THEN OnException(NextAttempt, ServiceError(outcome.text), result, content)
                 ELSE IF ~parsed.ok
                      THEN OnDecodeError(NextAttempt, parsed.value, cont)
                      ELSE OnParsed(NextAttempt, parsed.value, cont)
    /\ UNCHANGED <<cj_document, max_retries, cj_return>>
    /\ UNCHANGED <<api_key, notConv>>

(* json_convertor.py:130-141 *)
ConvertReturn ==
    /\ cj_pc = "return"
    /\ LET final == IF result = None THEN NoResultFallback(cj_document) ELSE result
       IN  /\ result' = final
           /\ cj_return' = [json |-> final,
                            fields_count |-> PyLen(final),
                            retries_used |-> RetriesUsed(attempt, max_retries)]
    /\ cj_pc' = "done"
    /\ UNCHANGED <<cj_document, max_retries, attempt, conversion_prompt, content,
                   last_error, cj_calls>>
    /\ UNCHANGED <<api_key, notConv>>

NextConv ==
    \/ ConvertNoCredential
    \/ ConvertEnter
    \/ ConvertAttemptFormatFails
    \/ ConvertAttempt
    \/ ConvertReturn

SpecConv == InitConv /\ [][NextConv]_vars

----------------------------------------------------------------------------
(* Properties of convert_to_json *)

ReturnedJson == cj_return.json

AllCallsUnparsable ==
    /\ cj_calls # << >>
    /\ \A i \in 1..Len(cj_calls) :
          /\ cj_calls[i].outcome.ok
          /\ ~json_loads(ExtractJson(cj_calls[i].outcome.text)).ok

(* C1: for max_retries >= 1 and any outcomes of the completion service the *)
(* returned json holds main_content.                                       *)
C1_JsonHasMainContent ==
    (cj_pc = "done" /\ max_retries >= 1) => Contains(ReturnedJson, "main_content")

C3_UnparsableEndsInFallback ==
    (cj_pc = "done" /\ AllCallsUnparsable) =>
        /\ attempt.bound /\ attempt.value + 1 = max_retries
        /\ Len(cj_calls) <= max_retries
        /\ cj_return.retries_used = max_retries
        /\ ReturnedJson.type = "dict"
        /\ "error" \in DOMAIN ReturnedJson.items
        /\ "main_content" \in DOMAIN ReturnedJson.items
        /\ ReturnedJson.items.main_content = PySlice(cj_document, 0, 1000)

(* C3 witness: three calls, each answered by prose, on a document longer   *)
(* than 1000 characters.                                                   *)
C3_Witness ==
    /\ cj_pc = "done"
    /\ AllCallsUnparsable
    /\ Len(cj_calls) = 3
    /\ Len(cj_document) > 1000
    /\ Len(ReturnedJson.items.main_content) = 1000

----------------------------------------------------------------------------
(* clean_text, cleaner.py:6-12 *)

(* \s+ matched at index i *)
WhitespaceRunEnd(s, i) ==
    LET e == RunEnd(s, i, Whitespace)
    IN  IF e > i THEN e ELSE 0

(* first index >= i at which s holds whitespace (Len(s)+1 when none): the  *)
(* characters before it are copied by re.sub as they are                   *)
SolidRunEnd(s, i) ==
    CHOOSE j \in i..(Len(s) + 1) :
        /\ j = Len(s) + 1 \/ s[j] \in Whitespace
        /\ \A k \in i..(j - 1) : s[k] \notin Whitespace

RECURSIVE CollapseFrom(_, _)
CollapseFrom(s, i) ==
    IF i > Len(s) THEN << >>
    ELSE LET e == WhitespaceRunEnd(s, i)
             w == SolidRunEnd(s, i)
         IN  IF e > 0
             THEN <<" ">> \o CollapseFrom(s, e)
             ELSE SubSeq(s, i, w - 1) \o CollapseFrom(s, w)

clean_text(s) == strip(re_sub("newlines", CollapseFrom(s, 1)))

(* len(s.split()): the number of maximal runs of non-whitespace *)
WordCount(s) ==
    Cardinality({i \in 1..Len(s) :
                    s[i] \notin Whitespace /\ (i = 1 \/ s[i - 1] \in Whitespace)})

(* chunk_text as a function, cleaner.py:33-67 *)
RECURSIVE ChunkLoop(_, _, _, _, _)
ChunkLoop(t, st, size, ov, acc) ==
    IF ~(st < Len(t)) THEN acc
    ELSE ChunkLoop(t, NextStart(WindowEnd(t, st, size), ov), size, ov,
                   Append(acc, EmittedChunk(WindowChunk(t, st, size))))

chunk_text(t, size, ov) ==
    IF FitsOneChunk(t, size) THEN WholeTextResult(t) ELSE ChunkLoop(t, 0, size, ov, << >>)

----------------------------------------------------------------------------
(* summarize_document, summarizer.py:13-96 *)

SummaryInputLimit == 5000
SummaryChunkSize == 3000
DefaultOverlap == 200

UpperCase == <<"A", "B", "C", "D", "E", "F", "G", "H", "I", "J", "K", "L", "M",
               "N", "O", "P", "Q", "R", "S", "T", "U", "V", "W", "X", "Y", "Z">>
LowerCase == <<"a", "b", "c", "d", "e", "f", "g", "h", "i", "j", "k", "l", "m",
               "n", "o", "p", "q", "r", "s", "t", "u", "v", "w", "x", "y", "z">>

(* s.lower() *)
lower(s) ==
    [i \in 1..Len(s) |->
        IF \E k \in 1..26 : UpperCase[k] = s[i]
        THEN LowerCase[CHOOSE k \in 1..26 : UpperCase[k] = s[i]]
        ELSE s[i]]

(* sub in s *)
IsSubstring(sub, s) ==
    \E i \in 1..(Len(s) - Len(sub) + 1) : SubSeq(s, i, i + Len(sub) - 1) = sub

WordMissing == <<"m", "i", "s", "s", "i", "n", "g">>
WordsNotCovered == <<"n", "o", "t", " ", "c", "o", "v", "e", "r", "e", "d">>

NeedsRepairCaseSensitive(check) ==
    IsSubstring(WordMissing, check) \/ IsSubstring(WordsNotCovered, check)

(* summarizer.py:64 *)
NeedsRepair(check) ==
    IsSubstring(WordMissing, lower(check)) \/ IsSubstring(WordsNotCovered, lower(check))

(* responses of the completion service to the summarizer's prompts *)
AllCovered == <<"A", "l", "l", " ", "m", "a", "j", "o", "r", " ", "s", "e", "c", "t", "i", "o", "n", "s", " ", "c", "o", "v", "e", "r", "e", "d", ".">>
SumMissingIntro == <<"M", "i", "s", "s", "i", "n", "g", ":", " ", "i", "n", "t", "r", "o">>
SumNotCoveredUpper == <<"N", "O", "T", " ", "C", "O", "V", "E", "R", "E", "D">>
SumNothingMissing == <<"N", "o", "t", "h", "i", "n", "g", " ", "i", "s", " ", "m", "i", "s", "s", "i", "n", "g">>
SumSplitWord == <<"m", "i", "s", " ", "s", "i", "n", "g", ",", " ", "n", "o", "t", " ", " ", "c", "o", "v", "e", "r", "e", "d">>
SumBold == <<"*", "*", "s", "*", "*">>
SumNestedList == <<"-", " ", "-", " ", "s">>

SummaryResponses == {AllCovered, SumMissingIntro, SumNotCoveredUpper, SumNothingMissing,
                     SumSplitWord, SumBold, SumNestedList}

SummaryOutcomes ==
    {[ok |-> TRUE, text |-> r] : r \in SummaryResponses}
        \cup {[ok |-> FALSE, text |-> ServiceFailureMessage]}

SummaryAlphabet == {"a", " ", "\n"}

(* a document longer than the 5000 characters the summary prompts carry:   *)
(* one long word, then one-letter words beyond the limit                   *)
SummaryDocLong ==
    [i \in 1..LongSummaryDocLen |->
        IF i < SummaryInputLimit THEN "a"
        ELSE IF (i - SummaryInputLimit) % 2 = 0 THEN " " ELSE "b"]

(* summarizer.py:55-58 *)
ConsistencyPreview(d) ==
    LET document_chunks == chunk_text(d, SummaryChunkSize, DefaultOverlap)
    IN  IF Len(document_chunks) > 0 THEN document_chunks[1] ELSE Take(d, SummaryChunkSize)

SummaryResultOfPreview(final_summary, d) ==
    [summary |-> strip_markdown(final_summary),
     word_count |-> WordCount(Take(d, SummaryInputLimit)),
     sections_verified |-> TRUE]

(* summarizer.py:92-96 *)
SummaryResult(final_summary, d) ==
    [summary |-> strip_markdown(final_summary),
     word_count |-> WordCount(d),
     sections_verified |-> TRUE]

InitSum ==
    /\ IdleChunk
    /\ IdleStrip
    /\ IdleClass
    /\ IdleExtract
    /\ IdleCompare
    /\ IdleSim
    /\ IdleConv
    /\ api_key \in BOOLEAN
    /\ sz_pc = "call"
    /\ sz_input \in SeqsUpTo(SummaryAlphabet, MaxSummaryDocLen) \cup {SummaryDocLong}
    /\ sz_document = << >>
    /\ initial_summary = << >>
    /\ consistency_check = << >>
    /\ sz_calls = << >>
    /\ sz_return = None

(* summarizer.py:23, llm.py:29-31: get_llm raises without a credential *)
SummarizeNoCredential ==
    /\ sz_pc = "call"
    /\ ~api_key
    /\ sz_pc' = "raised"
    /\ UNCHANGED <<sz_input, sz_document, initial_summary, consistency_check,
                   sz_calls, sz_return>>
    /\ UNCHANGED <<api_key, notSum>>

(* summarizer.py:23-40: clean the document, ask for the initial summary *)
SummarizeInitial ==
    /\ sz_pc = "call"
    /\ api_key
    /\ sz_document' = clean_text(sz_input)
    /\ \E outcome \in SummaryOutcomes :
          /\ sz_calls' = Append(sz_calls,
                 [step |-> "initial",
                  document |-> Take(sz_document', SummaryInputLimit),
                  summary |-> << >>,
                  missing_info |-> << >>,
                  outcome |-> outcome])
          /\ IF outcome.ok
             THEN initial_summary' = outcome.text /\ sz_pc' = "consistency"
             ELSE initial_summary' = initial_summary /\ sz_pc' = "raised"
    /\ UNCHANGED <<sz_input, consistency_check, sz_return>>
    /\ UNCHANGED <<api_key, notSum>>

(* summarizer.py:42-61: ask whether the summary covers the first chunk *)
SummarizeConsistency ==
    /\ sz_pc = "consistency"
    /\ \E outcome \in SummaryOutcomes :
          /\ sz_calls' = Append(sz_calls,
                 [step |-> "consistency",
                  document |-> ConsistencyPreview(sz_document),
                  summary |-> initial_summary,
                  missing_info |-> << >>,
                  outcome |-> outcome])
          /\ IF outcome.ok
             THEN consistency_check' = outcome.text /\ sz_pc' = "final"
             ELSE consistency_check' = consistency_check /\ sz_pc' = "raised"
    /\ UNCHANGED <<sz_input, sz_document, initial_summary, sz_return>>
    /\ UNCHANGED <<api_key, notSum>>

(* summarizer.py:64-85, 89-96: the repair call and the return *)
SummarizeRepair ==
    /\ sz_pc = "final"
    /\ NeedsRepair(consistency_check)
    /\ \E outcome \in SummaryOutcomes :
          /\ sz_calls' = Append(sz_calls,
                 [step |-> "repair",
                  document |-> Take(sz_document, SummaryInputLimit),
                  summary |-> initial_summary,
                  missing_info |-> consistency_check,
                  outcome |-> outcome])
          /\ IF outcome.ok
             THEN /\ sz_return' = SummaryResult(outcome.text, sz_document)
                  /\ sz_pc' = "done"
             ELSE /\ sz_return' = sz_return
                  /\ sz_pc' = "raised"
    /\ UNCHANGED <<sz_input, sz_document, initial_summary, consistency_check>>
    /\ UNCHANGED <<api_key, notSum>>

(* summarizer.py:86-96: the initial summary is kept and returned *)
SummarizeReuse ==
    /\ sz_pc = "final"
    /\ ~NeedsRepair(consistency_check)
    /\ sz_return' = SummaryResult(initial_summary, sz_document)
    /\ sz_pc' = "done"
    /\ UNCHANGED <<sz_input, sz_document, initial_summary, consistency_check, sz_calls>>
    /\ UNCHANGED <<api_key, notSum>>

NextSum ==
    \/ SummarizeNoCredential
    \/ SummarizeInitial
    \/ SummarizeConsistency
    \/ SummarizeRepair
    \/ SummarizeReuse

SpecSum == InitSum /\ [][NextSum]_vars

----------------------------------------------------------------------------
(* Properties of summarize_document *)

CallOrder == <<"initial", "consistency", "repair">>

(* the consistency-check response names a gap: it holds "missing" or       *)
(* "not covered" in any letter case                                        *)
HoldsIgnoringCase(word, response) ==
    \E i \in 1..(Len(response) - Len(word) + 1) :
        lower(SubSeq(response, i, i + Len(word) - 1)) = word

MentionsGap(response) ==
    HoldsIgnoringCase(WordMissing, response) \/ HoldsIgnoringCase(WordsNotCovered, response)

ConsistencyResponse == sz_calls[2].outcome.text

(* C10: at most 3 calls, in the order initial summary, consistency check,  *)
(* repair; the repair call is issued if and only if the consistency-check  *)
(* response holds "missing" or "not covered" in any letter case, so the    *)
(* response "All major sections covered." gives exactly 2 calls.           *)
C10_SummarizerCallSequence ==
    /\ Len(sz_calls) <= 3
    /\ \A i \in 1..Len(sz_calls) : sz_calls[i].step = CallOrder[i]
    /\ Len(sz_calls) = 3 => sz_calls[2].outcome.ok /\ MentionsGap(ConsistencyResponse)
    /\ sz_pc = "done" =>
          /\ Len(sz_calls) >= 2
          /\ MentionsGap(ConsistencyResponse) => Len(sz_calls) = 3
          /\ ConsistencyResponse = AllCovered => Len(sz_calls) = 2

(* C10 witness: a returned summary after a consistency check that answered *)
(* NOT COVERED in capitals, hence three calls.                             *)
C10_Witness ==
    /\ sz_pc = "done"
    /\ Len(sz_calls) = 3
    /\ ConsistencyResponse = SumNotCoveredUpper

(* number of whitespace-separated tokens of s, counted at the token ends *)
TokenCount(s) ==
    Cardinality({i \in 1..Len(s) :
                    s[i] \notin Whitespace /\ (i = Len(s) \/ s[i + 1] \in Whitespace)})

(* C11: the word_count of a returned summary is the number of              *)
(* whitespace-separated tokens of the cleaned full document, whatever the  *)
(* summary text, the 5000-character truncation of the prompts and the      *)
(* presence of the repair call.                                            *)
C11_WordCountOfCleanedDocument ==
    sz_pc = "done" => sz_return.word_count = TokenCount(clean_text(sz_input))

(* C11 witness: a returned summary of a document longer than 5000          *)
(* characters after cleaning, with tokens beyond the truncation, the       *)
(* repair call made, and a summary of a different number of tokens.        *)
C11_Witness ==
    /\ sz_pc = "done"
    /\ Len(sz_document) > SummaryInputLimit
    /\ Len(sz_calls) = 3
    /\ Len(sz_calls[1].document) = SummaryInputLimit
    /\ TokenCount(sz_calls[1].document) < sz_return.word_count
    /\ TokenCount(sz_return.summary) # sz_return.word_count

----------------------------------------------------------------------------
(* classify_document, classifier.py:13-142 *)

ClassifyPreviewLimit == 3000
IndicatorsPreviewLimit == 2000

(* classifier.py:56: the category names, as the characters searched for *)
Resume == <<"r", "e", "s", "u", "m", "e">>
Invoice == <<"i", "n", "v", "o", "i", "c", "e">>
Contract == <<"c", "o", "n", "t", "r", "a", "c", "t">>
ResearchPaper ==
    <<"r", "e", "s", "e", "a", "r", "c", "h", "_", "p", "a", "p", "e", "r">>
Report == <<"r", "e", "p", "o", "r", "t">>
Letter == <<"l", "e", "t", "t", "e", "r">>
Other == <<"o", "t", "h", "e", "r">>

categories == <<Resume, Invoice, Contract, ResearchPaper, Report, Letter, Other>>

(* classifier.py:58, 105: the spelling with a blank *)
ResearchPaperSpaced ==
    <<"r", "e", "s", "e", "a", "r", "c", "h", " ", "p", "a", "p", "e", "r">>

(* classifier.py:69-72, 114-117 *)
WordHigh == <<"h", "i", "g", "h">>
WordLow == <<"l", "o", "w">>

ScanCategoryEnumOnly(lowered, previous) ==
    IF \A k \in 1..Len(categories) : ~IsSubstring(categories[k], lowered)
    THEN previous
    ELSE categories[CHOOSE k \in 1..Len(categories) :
                        /\ IsSubstring(categories[k], lowered)
                        /\ \A j \in 1..(k - 1) : ~IsSubstring(categories[j], lowered)]

(* classifier.py:58-64, 105-111: the research paper spellings first, then  *)
(* the first name of categories that the response holds; the category stays *)
(* as it was when the response holds none.                                  *)
ScanCategory(lowered, previous) ==
    IF IsSubstring(ResearchPaperSpaced, lowered) \/ IsSubstring(ResearchPaper, lowered)
    THEN ResearchPaper
    ELSE IF \A k \in 1..Len(categories) : ~IsSubstring(categories[k], lowered)
         THEN previous
         ELSE categories[CHOOSE k \in 1..Len(categories) :
                             /\ IsSubstring(categories[k], lowered)
                             /\ \A j \in 1..(k - 1) : ~IsSubstring(categories[j], lowered)]

FirstPassCategoryNoDefault(lowered) == ScanCategory(lowered, NoCategory)

(* classifier.py:53-67 *)
FirstPassCategory(lowered) ==
    LET found == ScanCategory(lowered, NoCategory)
    IN  IF found = NoCategory THEN Other ELSE found

(* classifier.py:69-72, 114-117 *)
ParseConfidence(lowered, previous) ==
    IF IsSubstring(WordHigh, lowered) THEN "high"
    ELSE IF IsSubstring(WordLow, lowered) THEN "low"
    ELSE previous

NeedsReevaluationLowOnly(conf) == conf = "low"

(* classifier.py:75 *)
NeedsReevaluation(conf) == conf \in {"low", "medium"}

(* classifier.py:25 *)
ClassifyPreview(d) == IF Len(d) > ClassifyPreviewLimit THEN Take(d, ClassifyPreviewLimit) ELSE d

(* responses of the completion service to the classifier's prompts *)
ClsPaperAndReport ==
    <<"R", "e", "s", "e", "a", "r", "c", "h", " ", "p", "a", "p", "e", "r",
      ",", " ", "n", "o", "t", " ", "a", " ", "r", "e", "p", "o", "r", "t",
      ".", " ", "H", "i", "g", "h">>
ClsReportMedium ==
    <<"r", "e", "p", "o", "r", "t", " ", "(", "m", "e", "d", "i", "u", "m",
      ")">>
ClsUnderscoreLow ==
    <<"R", "E", "S", "E", "A", "R", "C", "H", "_", "P", "A", "P", "E", "R",
      " ", "l", "o", "w">>
ClsUnclear == <<"u", "n", "c", "l", "e", "a", "r">>
ClsPaperOnly ==
    <<"R", "e", "s", "e", "a", "r", "c", "h", " ", "P", "a", "p", "e", "r">>
ClsAnother ==
    <<"A", "n", "o", "t", "h", "e", "r", " ", "f", "o", "l", "l", "o", "w",
      "-", "u", "p">>
ClsContractInvoice ==
    <<"c", "o", "n", "t", "r", "a", "c", "t", " ", "o", "r", " ", "i", "n",
      "v", "o", "i", "c", "e", ":", " ", "h", "i", "g", "h", ",", " ", "n",
      "o", "t", " ", "l", "o", "w">>
ClsBoldItem == <<"-", " ", "*", "*", "k", "e", "y", "*", "*">>
ClsLetterHigh ==
    <<"L", "e", "t", "t", "e", "r", ".", " ", "H", "I", "G", "H">>
ClsEmpty == << >>

ClassifyResponses == {ClsPaperAndReport, ClsReportMedium, ClsUnderscoreLow, ClsUnclear,
                      ClsPaperOnly, ClsAnother, ClsContractInvoice, ClsBoldItem,
                      ClsLetterHigh, ClsEmpty}

ClassifyOutcomes ==
    {[ok |-> TRUE, text |-> r] : r \in ClassifyResponses}
        \cup {[ok |-> FALSE, text |-> ServiceFailureMessage]}

(* a document longer than the 3000 characters of the classification preview *)
ClassifyDocLong == [i \in 1..LongClassifyDocLen |-> IF i % 7 = 0 THEN " " ELSE "a"]

ClassifyDocuments == {<< >>, <<"a", " ", "b">>, ClassifyDocLong}

ClassifyResultOfPreview(cat, conf, indicators, d) ==
    [category |-> cat,
     confidence |-> conf,
     indicators |-> strip_markdown(indicators),
     document_length |-> Len(ClassifyPreview(d))]

(* classifier.py:135-142 *)
ClassifyResult(cat, conf, indicators, d) ==
    [category |-> cat,
     confidence |-> conf,
     indicators |-> strip_markdown(indicators),
     document_length |-> Len(d)]

ClassifyCall(step, doc, initial_class, conf, cat, outcome) ==
    [step |-> step, document |-> doc, initial_class |-> initial_class,
     confidence |-> conf, category |-> cat, outcome |-> outcome]

InitClass ==
    /\ IdleChunk
    /\ IdleStrip
    /\ IdleConv
    /\ IdleSum
    /\ IdleExtract
    /\ IdleCompare
    /\ IdleSim
    /\ api_key \in BOOLEAN
    /\ cl_pc = "call"
    /\ cl_document \in ClassifyDocuments
    /\ category = NoCategory
    /\ confidence = "medium"
    /\ cl_calls = << >>
    /\ cl_return = None

(* classifier.py:23, llm.py:29-31: get_llm raises without a credential *)
ClassifyNoCredential ==
    /\ cl_pc = "call"
    /\ ~api_key
    /\ cl_pc' = "raised"
    /\ UNCHANGED <<cl_document, category, confidence, cl_calls, cl_return>>
    /\ UNCHANGED <<api_key, notClass>>

(* classifier.py:23-72: the first call and the parse of its response *)
ClassifyInitial ==
    /\ cl_pc = "call"
    /\ api_key
    /\ \E outcome \in ClassifyOutcomes :
          LET initial_classification == lower(outcome.text)
          IN  /\ cl_calls' = Append(cl_calls,
                     ClassifyCall("initial", ClassifyPreview(cl_document),
                                  << >>, "", << >>, outcome))
              /\ IF outcome.ok
                 THEN /\ category' = FirstPassCategory(initial_classification)
                      /\ confidence' = ParseConfidence(initial_classification, "medium")
                      /\ cl_pc' = IF NeedsReevaluation(confidence')
                                  THEN "reeval" ELSE "indicators"
                 ELSE /\ UNCHANGED <<category, confidence>>
                      /\ cl_pc' = "raised"
    /\ UNCHANGED <<cl_document, cl_return>>
    /\ UNCHANGED <<api_key, notClass>>

(* classifier.py:75-117 with the first-pass defaults applied to the        *)
(* re-evaluation response                                                  *)
ClassifyReevaluateOverwriting ==
    /\ cl_pc = "reeval"
    /\ \E outcome \in ClassifyOutcomes :
          LET reeval_content == lower(outcome.text)
          IN  /\ cl_calls' = Append(cl_calls,
                     ClassifyCall("reevaluation", ClassifyPreview(cl_document),
                                  category, confidence, << >>, outcome))
              /\ IF outcome.ok
                 THEN /\ category' = FirstPassCategory(reeval_content)
                      /\ confidence' = ParseConfidence(reeval_content, "medium")
                      /\ cl_pc' = "indicators"
                 ELSE /\ UNCHANGED <<category, confidence>>
                      /\ cl_pc' = "raised"
    /\ UNCHANGED <<cl_document, cl_return>>
    /\ UNCHANGED <<api_key, notClass>>

(* classifier.py:75-117: the re-evaluation call and the parse of its response *)
ClassifyReevaluate ==
    /\ cl_pc = "reeval"
    /\ \E outcome \in ClassifyOutcomes :
          LET reeval_content == lower(outcome.text)
          IN  /\ cl_calls' = Append(cl_calls,
                     ClassifyCall("reevaluation", ClassifyPreview(cl_document),
                                  category, confidence, << >>, outcome))
              /\ IF outcome.ok
                 THEN /\ category' = ScanCategory(reeval_content, category)
                      /\ confidence' = ParseConfidence(reeval_content, confidence)
                      /\ cl_pc' = "indicators"
                 ELSE /\ UNCHANGED <<category, confidence>>
                      /\ cl_pc' = "raised"
    /\ UNCHANGED <<cl_document, cl_return>>
    /\ UNCHANGED <<api_key, notClass>>

(* classifier.py:119-142: the indicators call and the return *)
ClassifyIndicators ==
    /\ cl_pc = "indicators"
    /\ \E outcome \in ClassifyOutcomes :
          /\ cl_calls' = Append(cl_calls,
                 ClassifyCall("indicators",
                              Take(ClassifyPreview(cl_document), IndicatorsPreviewLimit),
                              << >>, "", category, outcome))
          /\ IF outcome.ok
             THEN /\ cl_return' = ClassifyResult(category, confidence, outcome.text,
                                                 cl_document)
                  /\ cl_pc' = "done"
             ELSE /\ cl_return' = cl_return
                  /\ cl_pc' = "raised"
    /\ UNCHANGED <<cl_document, category, confidence>>
    /\ UNCHANGED <<api_key, notClass>>

NextClass ==
    \/ ClassifyNoCredential
    \/ ClassifyInitial
    \/ ClassifyReevaluate
    \/ ClassifyIndicators

SpecClass == InitClass /\ [][NextClass]_vars

----------------------------------------------------------------------------
(* Properties of classify_document *)

FirstResponse == cl_calls[1].outcome.text

(* the first response has been parsed and no later call has been made *)
FirstPassParsed == Len(cl_calls) = 1 /\ cl_calls[1].outcome.ok

OtherTerms == {Resume, Invoice, Contract, Report, Letter, Other}

NamesResearchPaper(response) ==
    \/ HoldsIgnoringCase(ResearchPaperSpaced, response)
    \/ HoldsIgnoringCase(ResearchPaper, response)

(* C12: a first response that holds "research paper" or "research_paper"   *)
(* together with another category term parses to research_paper; a first   *)
(* response that holds none of the seven category terms (research_paper in *)
(* neither spelling) parses to other.                                      *)
C12_CategoryParsing ==
    FirstPassParsed =>
        /\ (/\ NamesResearchPaper(FirstResponse)
            /\ \E t \in OtherTerms : HoldsIgnoringCase(t, FirstResponse))
              => category = ResearchPaper
        /\ (/\ ~NamesResearchPaper(FirstResponse)
            /\ \A t \in OtherTerms : ~HoldsIgnoringCase(t, FirstResponse))
              => category = Other

(* C12 witness: the first response names a research paper and a report,    *)
(* and the parsed category is research_paper.                              *)
C12_Witness ==
    /\ FirstPassParsed
    /\ HoldsIgnoringCase(ResearchPaperSpaced, FirstResponse)
    /\ HoldsIgnoringCase(Report, FirstResponse)
    /\ category = ResearchPaper

CategoryEnum == {Resume, Invoice, Contract, ResearchPaper, Report, Letter, Other}

(* C13: a returned classification has its category among the seven names,  *)
(* its confidence among high, medium and low, and document_length equal to *)
(* the length of the whole document, not of the 3000-character preview.    *)
C13_ClassificationWellFormed ==
    cl_pc = "done" =>
        /\ cl_return.category \in CategoryEnum
        /\ cl_return.confidence \in {"high", "medium", "low"}
        /\ cl_return.document_length = Len(cl_document)

(* C13 witness: a returned classification of a document longer than the    *)
(* preview, after a first response and a re-evaluation that name no        *)
(* category and no confidence.                                             *)
C13_Witness ==
    /\ cl_pc = "done"
    /\ Len(cl_document) > ClassifyPreviewLimit
    /\ Len(cl_calls) = 3
    /\ Len(cl_calls[1].document) = ClassifyPreviewLimit
    /\ cl_calls[1].outcome.text = ClsUnclear
    /\ cl_calls[2].outcome.text = ClsEmpty
    /\ cl_return.category = Other
    /\ cl_return.confidence = "medium"

----------------------------------------------------------------------------
(* extract_information, extractor.py:9-124 *)

ValuesLimit == 20

Quotes == {"\"", "'"}

(* extractor.py:112: where group 1 of  key[:\-]?\s*\[?([^\]]+)\]?  starts    *)
(* when the key ends right before index q; 0 when the pattern does not     *)
(* match there.  The optional colon or dash, the blanks and the optional   *)
(* opening bracket are taken when a character other than ']' follows       *)
(* them, and given back one at a time, the last taken first, otherwise.    *)
GroupStart(s, q) ==
    LET a == IF q <= Len(s) /\ s[q] \in {":", "-"} THEN 1 ELSE 0
        ws == RunEnd(s, q + a, Whitespace)
    IN  IF ws <= Len(s) /\ s[ws] = "["
        THEN IF ws + 1 <= Len(s) /\ s[ws + 1] # "]" THEN ws + 1 ELSE ws
        ELSE IF ws <= Len(s) /\ s[ws] # "]" THEN ws
        ELSE IF ws > q + a THEN ws - 1
        ELSE IF a = 1 THEN q
        ELSE 0

(* extractor.py:112-113: the pattern matches with the key at index p (re.IGNORECASE) *)
KeyMatchesAt(key, s, p) ==
    /\ p + Len(key) - 1 <= Len(s)
    /\ lower(SubSeq(s, p, p + Len(key) - 1)) = key
    /\ GroupStart(s, p + Len(key)) > 0

(* extractor.py:113-116: group 1 of the leftmost match, as <<text>>, or << >> *)
ValidatedGroup(key, s) ==
    IF \A p \in 1..Len(s) : ~KeyMatchesAt(key, s, p) THEN << >>
    ELSE LET p == CHOOSE i \in 1..Len(s) :
                      /\ KeyMatchesAt(key, s, i)
                      /\ \A j \in 1..(i - 1) : ~KeyMatchesAt(key, s, j)
             g == GroupStart(s, p + Len(key))
         IN  <<SubSeq(s, g, FindChar(s, g, "]") - 1)>>

(* s.split(sep) *)
RECURSIVE split(_, _)
split(s, sep) ==
    LET cut == FindChar(s, 1, sep)
    IN  IF cut > Len(s) THEN <<s>>
        ELSE <<SubSeq(s, 1, cut - 1)>> \o split(SubSeq(s, cut + 1, Len(s)), sep)

(* s.strip(chars) *)
strip_chars(s, chars) ==
    IF \A i \in 1..Len(s) : s[i] \in chars THEN << >>
    ELSE SubSeq(s, CHOOSE i \in 1..Len(s) :
                       /\ s[i] \notin chars
                       /\ \A j \in 1..(i - 1) : s[j] \in chars,
                   CHOOSE i \in 1..Len(s) :
                       /\ s[i] \notin chars
                       /\ \A j \in (i + 1)..Len(s) : s[j] \in chars)

(* [v for v in values if v] *)
RECURSIVE NonEmpty(_)
NonEmpty(values) ==
    IF values = << >> THEN << >>
    ELSE IF Head(values) = << >> THEN NonEmpty(Tail(values))
    ELSE <<Head(values)>> \o NonEmpty(Tail(values))

(* extractor.py:116-118 *)
ValidatedValues(values_str) ==
    LET pieces == split(values_str, ",")
        values == [i \in 1..Len(pieces) |-> strip_chars(strip(pieces[i]), Quotes)]
    IN  Take(NonEmpty(values), ValuesLimit)

(* the field names of extractor.py:35-85, as the text the pattern of line 112 holds *)
KeyEmails == <<"e", "m", "a", "i", "l", "s">>
KeyDates == <<"d", "a", "t", "e", "s">>
KeyAmounts == <<"a", "m", "o", "u", "n", "t", "s">>
KeyPhoneNumbers ==
    <<"p", "h", "o", "n", "e", "_", "n", "u", "m", "b", "e", "r", "s">>
KeyNames == <<"n", "a", "m", "e", "s">>
KeyKeywords == <<"k", "e", "y", "w", "o", "r", "d", "s">>

KeyText(key) ==
    CASE key = "emails" -> KeyEmails
      [] key = "dates" -> KeyDates
      [] key = "amounts" -> KeyAmounts
      [] key = "phone_numbers" -> KeyPhoneNumbers
      [] key = "names" -> KeyNames
      [] key = "keywords" -> KeyKeywords

(* extractor.py:33-50: the values of extraction_type that the code tests   *)
(* for, and one that it does not                                           *)
ExtractionTypes == {"emails", "dates", "totals", "phone_numbers", "names", "keywords",
                    "all", "summary"}

(* extractor.py:50 *)
ModelTrackTypes == {"names", "keywords", "all"}

ExtractInputLimit == 4000
ValidationPreviewLimit == 2000
PotentialNamesLimit == 10

(* documents *)
ExDocEmpty == << >>
ExDocContact ==
    <<"A", "n", "n", " ", "L", "e", "e", " ", "a", "n", "n", "@", "x", ".",
      "i", "o", " ", "1", "/", "2", "/", "2", "0", "2", "0", " ", "5", "5",
      "5", "-", "1", "2", "3", "-", "4", "5", "6", "7", " ", "$", "1", ",",
      "0", "0", "0", ".", "0", "0">>
ExDocTwoMails ==
    <<"a", "@", "b", ".", "c", "o", " ", "c", "@", "d", ".", "o", "r", "g",
      " ", "a", "@", "b", ".", "c", "o">>
ExDocNumbers ==
    <<"1", " ", "2", " ", "3", " ", "4", " ", "5", " ", "6", " ", "7", " ",
      "8", " ", "9", " ", "0", " ", "1", " ", "2", " ", "3", " ", "4", " ",
      "5", " ", "6", " ", "7", " ", "8", " ", "9", " ", "0", " ", "1">>

ExtractDocuments == {ExDocEmpty, ExDocContact, ExDocTwoMails, ExDocNumbers}

(* responses of the completion service to the extractor's prompts *)
ExRespLabelled ==
    <<"n", "a", "m", "e", "s", ":", " ", "J", "o", "h", "n", " ", "S", "m",
      "i", "t", "h", "\n", "k", "e", "y", "w", "o", "r", "d", "s", ":", " ",
      "a", "l", "p", "h", "a", ",", " ", "b", "e", "t", "a">>
ExRespProse ==
    <<"A", "l", "i", "c", "e", " ", "B", "r", "o", "w", "n", " ", "m", "e",
      "t", " ", "B", "o", "b", " ", "S", "t", "o", "n", "e">>
ExRespEmpty == << >>
ExRespUpperKeys ==
    <<"E", "M", "A", "I", "L", "S", ":", " ", "[", "x", "@", "y", ".", "z",
      "z", "]", " ", "D", "a", "t", "e", "s", ":", " ", "n", "o", "n", "e">>
ExRespManyAmounts ==
    <<"a", "m", "o", "u", "n", "t", "s", ":", "7", ",", "7", ",", "7", ",",
      "7", ",", "7", ",", "7", ",", "7", ",", "7", ",", "7", ",", "7", ",",
      "7", ",", "7", ",", "7", ",", "7", ",", "7", ",", "7", ",", "7", ",",
      "7", ",", "7", ",", "7", ",", "7", ",">>
ExRespUpdates ==
    <<"u", "p", "d", "a", "t", "e", "s", ":", " ", "\"", "p", "h", "o", "n",
      "e", "_", "n", "u", "m", "b", "e", "r", "s", "\"", "]">>
ExRespKeyThenBracket == <<"e", "m", "a", "i", "l", "s", "]">>

ExtractResponses == {ExRespLabelled, ExRespProse, ExRespEmpty,
                     ExRespUpperKeys, ExRespManyAmounts, ExRespUpdates,
                     ExRespKeyThenBracket}

(* extractor.py:34: re.findall(patterns["emails"], document) on the documents above *)
findall_emails(d) ==
    CASE d = ExDocContact ->
          <<<<"a", "n", "n", "@", "x", ".", "i", "o">>>>
      [] d = ExDocTwoMails ->
          <<<<"a", "@", "b", ".", "c", "o">>, <<"c", "@", "d", ".", "o", "r", "g">>, <<"a", "@", "b", ".", "c", "o">>>>
      [] OTHER -> << >>

(* extractor.py:38: re.findall(patterns["dates"], document) on the documents above *)
findall_dates(d) ==
    CASE d = ExDocContact ->
          <<<<"1", "/", "2", "/", "2", "0", "2", "0">>>>
      [] OTHER -> << >>

(* extractor.py:42: re.findall(patterns["amounts"], document) on the documents above *)
findall_amounts(d) ==
    CASE d = ExDocContact ->
          <<<<"1">>, <<"2">>, <<"2", "0", "2">>, <<"0">>, <<"5", "5", "5">>, <<"1", "2", "3">>, <<"4", "5", "6">>, <<"7">>, <<"$", "1", ",", "0", "0", "0", ".", "0", "0">>>>
      [] d = ExDocNumbers ->
          <<<<"1">>, <<"2">>, <<"3">>, <<"4">>, <<"5">>, <<"6">>, <<"7">>, <<"8">>, <<"9">>, <<"0">>, <<"1">>, <<"2">>, <<"3">>, <<"4">>, <<"5">>, <<"6">>, <<"7">>, <<"8">>, <<"9">>, <<"0">>, <<"1">>>>
      [] OTHER -> << >>

(* extractor.py:46: re.findall(patterns["phone_numbers"], document) on the documents above *)
findall_phone_numbers(d) ==
    CASE d = ExDocContact ->
          <<<<"5", "5", "5", "-", "1", "2", "3", "-", "4", "5", "6", "7">>>>
      [] OTHER -> << >>

(* extractor.py:72-73: re.findall(name_pattern, content, re.IGNORECASE) on the responses above *)
findall_names(c) ==
    CASE c = ExRespLabelled ->
          <<<<"J", "o", "h", "n", " ", "S", "m", "i", "t", "h", "\n", "k", "e", "y", "w", "o", "r", "d", "s">>>>
      [] OTHER -> << >>

(* extractor.py:76: the two capitalized words, on the responses above *)
findall_potential_names(c) ==
    CASE c = ExRespLabelled ->
          <<<<"J", "o", "h", "n", " ", "S", "m", "i", "t", "h">>>>
      [] c = ExRespProse ->
          <<<<"A", "l", "i", "c", "e", " ", "B", "r", "o", "w", "n">>, <<"B", "o", "b", " ", "S", "t", "o", "n", "e">>>>
      [] OTHER -> << >>

(* extractor.py:82: group 1 of the keyword section, as <<text>>, on the responses above *)
keyword_section(c) ==
    CASE c = ExRespLabelled ->
          <<<<"a", "l", "p", "h", "a", ",", " ", "b", "e", "t", "a">>>>
      [] OTHER -> << >>

ExtractOutcomes ==
    {[ok |-> TRUE, text |-> r] : r \in ExtractResponses}
        \cup {[ok |-> FALSE, text |-> ServiceFailureMessage]}

Range(s) == {s[i] : i \in 1..Len(s)}

(* list(set(values)): the distinct values, in an order the code does not fix *)
Orderings(S) ==
    {f \in [1..Cardinality(S) -> S] : \A i, j \in 1..Cardinality(S) : i # j => f[i] # f[j]}

Field(key, values) == [key |-> key, values |-> values]

(* extractor.py:30-47: the mapping after the regex track, in insertion order *)
PatternTrack(type, d, emails, dates, phones) ==
    (IF type \in {"emails", "all"} THEN <<Field("emails", emails)>> ELSE << >>)
    \o (IF type \in {"dates", "all"} THEN <<Field("dates", dates)>> ELSE << >>)
    \o (IF type \in {"totals", "all"}
        THEN <<Field("amounts", Take(findall_amounts(d), ValuesLimit))>> ELSE << >>)
    \o (IF type \in {"phone_numbers", "all"}
        THEN <<Field("phone_numbers", phones)>> ELSE << >>)

(* extractor.py:72-77: the names found in the response, before list(set()) *)
FoundNames(c) ==
    IF findall_names(c) # << >> THEN findall_names(c)
    ELSE Take(findall_potential_names(c), PotentialNamesLimit)

(* extractor.py:84-85 *)
Keywords(section) ==
    LET pieces == split(section, ",")
    IN  Take(NonEmpty([i \in 1..Len(pieces) |-> strip(pieces[i])]), ValuesLimit)

(* extractor.py:69-85: the fields the response of the model track adds *)
ModelTrack(type, c, names) ==
    (IF type \in {"names", "all"} THEN <<Field("names", names)>> ELSE << >>)
    \o (IF type \in {"keywords", "all"} /\ keyword_section(c) # << >>
        THEN <<Field("keywords", Keywords(keyword_section(c)[1]))>> ELSE << >>)

ValidatedFieldOrEmpty(field, validated_content) ==
    LET match == ValidatedGroup(KeyText(field.key), validated_content)
    IN  IF match # << >>
        THEN Field(field.key, ValidatedValues(match[1]))
        ELSE Field(field.key, << >>)

(* extractor.py:110-118: one iteration of the loop over the keys *)
ValidatedField(field, validated_content) ==
    LET match == ValidatedGroup(KeyText(field.key), validated_content)
    IN  IF match # << >>
        THEN Field(field.key, ValidatedValues(match[1]))
        ELSE field

(* extractor.py:109-118 *)
Validate(mapping, validated_content) ==
    [i \in 1..Len(mapping) |-> ValidatedField(mapping[i], validated_content)]

RECURSIVE TotalItems(_)
(* extractor.py:123 *)
TotalItems(mapping) ==
    IF mapping = << >> THEN 0
    ELSE Len(Head(mapping).values) + TotalItems(Tail(mapping))

(* extractor.py:120-124 *)
ExtractResult(mapping, type) ==
    [extracted |-> mapping, extraction_type |-> type, total_items |-> TotalItems(mapping)]

ExtractCall(step, doc, mapping, outcome) ==
    [step |-> step, document |-> doc, extracted |-> mapping, outcome |-> outcome]

InitExtract ==
    /\ IdleChunk
    /\ IdleStrip
    /\ IdleConv
    /\ IdleSum
    /\ IdleClass
    /\ IdleCompare
    /\ IdleSim
    /\ api_key \in BOOLEAN
    /\ ex_pc = "call"
    /\ ex_document \in ExtractDocuments
    /\ extraction_type \in ExtractionTypes
    /\ extracted = << >>
    /\ ex_calls = << >>
    /\ ex_return = None

(* extractor.py:20, llm.py:29-31: get_llm raises without a credential *)
ExtractNoCredential ==
    /\ ex_pc = "call"
    /\ ~api_key
    /\ ex_pc' = "raised"
    /\ UNCHANGED <<ex_document, extraction_type, extracted, ex_calls, ex_return>>
    /\ UNCHANGED <<api_key, notExtract>>

(* extractor.py:88-124 with the validation call made for an empty mapping  *)
(* too                                                                     *)
AfterTracksAlwaysValidating(mapping) ==
    /\ ex_pc' = "validate"
    /\ ex_return' = ex_return

(* extractor.py:88, 120-124: with no field the validation is skipped and   *)
(* the result returned; otherwise the validation call is next              *)
AfterTracks(mapping) ==
    IF mapping # << >>
    THEN /\ ex_pc' = "validate"
         /\ ex_return' = ex_return
    ELSE /\ ex_pc' = "done"
         /\ ex_return' = ExtractResult(mapping, extraction_type)

(* extractor.py:20-50, 88: a type without model track *)
ExtractPatterns ==
    /\ ex_pc = "call"
    /\ api_key
    /\ extraction_type \notin ModelTrackTypes
    /\ \E emails \in Orderings(Range(findall_emails(ex_document))),
          dates \in Orderings(Range(findall_dates(ex_document))),
          phones \in Orderings(Range(findall_phone_numbers(ex_document))) :
          /\ extracted' = PatternTrack(extraction_type, ex_document, emails, dates, phones)
          /\ AfterTracks(extracted')
    /\ UNCHANGED <<ex_document, extraction_type, ex_calls>>
    /\ UNCHANGED <<api_key, notExtract>>

(* extractor.py:20-88: the regex track, the call of the model track and    *)
(* the parse of its response                                               *)
ExtractModelTrack ==
    /\ ex_pc = "call"
    /\ api_key
    /\ extraction_type \in ModelTrackTypes
    /\ \E emails \in Orderings(Range(findall_emails(ex_document))),
          dates \in Orderings(Range(findall_dates(ex_document))),
          phones \in Orderings(Range(findall_phone_numbers(ex_document))),
          outcome \in ExtractOutcomes :
          LET matched == PatternTrack(extraction_type, ex_document, emails, dates, phones)
          IN  /\ ex_calls' = Append(ex_calls,
                     ExtractCall("extraction", Take(ex_document, ExtractInputLimit),
                                 << >>, outcome))
              /\ IF outcome.ok
                 THEN \E names \in Orderings(Range(FoundNames(outcome.text))) :
                         /\ extracted' = matched
                                \o ModelTrack(extraction_type, outcome.text, names)
                         /\ AfterTracks(extracted')
                 ELSE /\ extracted' = matched
                      /\ ex_pc' = "raised"
                      /\ ex_return' = ex_return
    /\ UNCHANGED <<ex_document, extraction_type>>
    /\ UNCHANGED <<api_key, notExtract>>

(* extractor.py:88-124: the validation call, the re-parse and the return *)
ExtractValidate ==
    /\ ex_pc = "validate"
    /\ \E outcome \in ExtractOutcomes :
          /\ ex_calls' = Append(ex_calls,
                 ExtractCall("validation", Take(ex_document, ValidationPreviewLimit),
                             extracted, outcome))
          /\ IF outcome.ok
             THEN /\ extracted' = Validate(extracted, outcome.text)
                  /\ ex_return' = ExtractResult(extracted', extraction_type)
                  /\ ex_pc' = "done"
             ELSE /\ UNCHANGED <<extracted, ex_return>>
                  /\ ex_pc' = "raised"
    /\ UNCHANGED <<ex_document, extraction_type>>
    /\ UNCHANGED <<api_key, notExtract>>

NextExtract ==
    \/ ExtractNoCredential
    \/ ExtractPatterns
    \/ ExtractModelTrack
    \/ ExtractValidate

SpecExtract == InitExtract /\ [][NextExtract]_vars

----------------------------------------------------------------------------
(* Properties of extract_information *)

ValidationCall == ex_calls[Len(ex_calls)]

(* the validation call was answered and its response re-parsed *)
Validated ==
    /\ ex_pc = "done"
    /\ ex_calls # << >>
    /\ ValidationCall.step = "validation"

KeyOccurs(key, response) == HoldsIgnoringCase(KeyText(key), response)

(* C14: after the validation pass the mapping has the same fields in the   *)
(* same order, and every field whose key does not occur in the validation  *)
(* response (in any letter case) has the list it had before the pass,      *)
(* whatever happened to the other fields.                                  *)
C14_FieldIndependence ==
    Validated =>
        LET before == ValidationCall.extracted
            after == ex_return.extracted
            response == ValidationCall.outcome.text
        IN  /\ Len(after) = Len(before)
            /\ \A i \in 1..Len(before) :
                  /\ after[i].key = before[i].key
                  /\ ~KeyOccurs(before[i].key, response)
                        => after[i].values = before[i].values

(* C14 witness: a validation pass that replaced one field and left another *)
(* field, whose key the response does not hold, with its non-empty list.   *)
C14_Witness ==
    /\ Validated
    /\ \E i, j \in 1..Len(ex_return.extracted) :
          /\ ex_return.extracted[i].values # ValidationCall.extracted[i].values
          /\ ~KeyOccurs(ValidationCall.extracted[j].key, ValidationCall.outcome.text)
          /\ ValidationCall.extracted[j].values # << >>
          /\ ex_return.extracted[j].values = ValidationCall.extracted[j].values

----------------------------------------------------------------------------
(* calculate_similarity, comparator.py:121-135 *)

(* set(s.split()): the maximal runs of characters that are not whitespace *)
Words(s) ==
    {SubSeq(s, b, SolidRunEnd(s, b) - 1) :
        b \in {k \in 1..Len(s) :
                  s[k] \notin Whitespace /\ (k = 1 \/ s[k - 1] \in Whitespace)}}

(* a float that is the quotient of two naturals *)
Ratio(num, den) == [num |-> num, den |-> den]

calculate_similarity_of_first(doc1, doc2) ==
    LET words1 == Words(lower(doc1))
        words2 == Words(lower(doc2))
    IN  IF words1 = {} /\ words2 = {} THEN Ratio(1, 1)
        ELSE IF words1 = {} \/ words2 = {} THEN Ratio(0, 1)
        ELSE Ratio(Cardinality(words1 \cap words2), Cardinality(words1))

(* comparator.py:121-135 *)
calculate_similarity(doc1, doc2) ==
    LET words1 == Words(lower(doc1))
        words2 == Words(lower(doc2))
    IN  IF words1 = {} /\ words2 = {} THEN Ratio(1, 1)
        ELSE IF words1 = {} \/ words2 = {} THEN Ratio(0, 1)
        ELSE Ratio(Cardinality(words1 \cap words2), Cardinality(words1 \cup words2))

SimilarityAlphabet == {"a", "A", "b", " "}

InitSim ==
    /\ IdleChunk
    /\ IdleStrip
    /\ IdleConv
    /\ IdleSum
    /\ IdleClass
    /\ IdleExtract
    /\ IdleCompare
    /\ api_key = TRUE
    /\ sim_pc = "call"
    /\ sim_doc1 \in SeqsUpTo(SimilarityAlphabet, MaxSimilarityDocLen)
    /\ sim_doc2 \in SeqsUpTo(SimilarityAlphabet, MaxSimilarityDocLen)
    /\ similarity_score = Ratio(0, 1)

(* comparator.py:121-135 *)
Similarity ==
    /\ sim_pc = "call"
    /\ similarity_score' = calculate_similarity(sim_doc1, sim_doc2)
    /\ sim_pc' = "done"
    /\ UNCHANGED <<sim_doc1, sim_doc2>>
    /\ UNCHANGED notSim

NextSim == Similarity

SpecSim == InitSim /\ [][NextSim]_vars

(* a document without tokens: nothing but whitespace *)
TokenEmpty(s) == \A k \in 1..Len(s) : s[k] \in Whitespace

(* C16: calculate_similarity is symmetric, gives 1 for a document and      *)
(* itself, 1 for two documents without tokens, 0 when exactly one of the   *)
(* two has no tokens, and always a score between 0 and 1.                  *)
C16_SimilarityLaws ==
    sim_pc = "done" =>
        /\ similarity_score = calculate_similarity(sim_doc2, sim_doc1)
        /\ sim_doc1 = sim_doc2 => similarity_score.num = similarity_score.den
        /\ TokenEmpty(sim_doc1) /\ TokenEmpty(sim_doc2) =>
               similarity_score.num = similarity_score.den
        /\ TokenEmpty(sim_doc1) # TokenEmpty(sim_doc2) => similarity_score.num = 0
        /\ similarity_score.den > 0
        /\ 0 <= similarity_score.num
        /\ similarity_score.num <= similarity_score.den

(* C16 witness: two different documents that share some tokens but not all *)
C16_Witness ==
    /\ sim_pc = "done"
    /\ sim_doc1 # sim_doc2
    /\ ~TokenEmpty(sim_doc1)
    /\ 0 < similarity_score.num
    /\ similarity_score.num < similarity_score.den

----------------------------------------------------------------------------
(* compare_documents, comparator.py:13-118 *)

CompareChunkSize == 500
CompareOverlap == 50
ChunkPreviewLimit == 200
ChunkPromptLimit == 500
OverallPreviewLimit == 2000
RecordsLimit == 10

(* comparator.py:76 *)
WordsNoChanges == <<"n", "o", " ", "c", "h", "a", "n", "g", "e", "s">>

(* responses of the completion service to the comparator's prompts *)
CmpNoChanges == <<"N", "o", " ", "c", "h", "a", "n", "g", "e", "s", ".">>
CmpChanged ==
    <<"C", "h", "u", "n", "k", " ", "2", " ", "a", "d", "d", "s", " ", "a",
      " ", "w", "o", "r", "d", ".">>

CompareOutcomes ==
    {[ok |-> TRUE, text |-> r] : r \in {CmpNoChanges, CmpChanged}}
        \cup {[ok |-> FALSE, text |-> ServiceFailureMessage]}

(* documents of more than ten chunks: sentences of 400 characters, words   *)
(* of 49 letters                                                           *)
CompareDocLong(letter) ==
    [k \in 1..LongCompareDocLen |->
        IF k % 400 = 0 THEN "." ELSE IF k % 50 = 0 THEN " " ELSE letter]

ShortCompareDocuments ==
    {<< >>, <<"a">>, <<" ">>, <<"a", " ", "B">>, <<"b", " ", "a">>}

(* the pairs of documents compared: the short ones with each other, a long *)
(* one with the empty one, with itself and with another long one          *)
ComparePairs ==
    (ShortCompareDocuments \X ShortCompareDocuments)
        \cup {<<CompareDocLong("a"), << >> >>, << << >>, CompareDocLong("a")>>,
              <<CompareDocLong("a"), CompareDocLong("a")>>,
              <<CompareDocLong("a"), CompareDocLong("b")>>}

(* comparator.py:107: calculate_similarity(doc1, doc2, chunks1, chunks2),   *)
(* tabulated over the documents of the model                               *)
SimilarityTable ==
    {[doc1 |-> pair[1], doc2 |-> pair[2],
      score |-> calculate_similarity(pair[1], pair[2])] :
        pair \in ComparePairs}

similarity(d1, d2) ==
    (CHOOSE row \in SimilarityTable : row.doc1 = d1 /\ row.doc2 = d2).score

(* comparator.py:39-40: chunks[i] if i < len(chunks) else "" *)
ChunkAt(chunk_list, index) ==
    IF index < Len(chunk_list) THEN chunk_list[index + 1] ELSE << >>

(* comparator.py:36 *)
MaxChunksOf(c1, c2) == Max2(Len(c1), Len(c2))

(* truth value of a string *)
Truthy(s) == s # << >>

(* comparator.py:42 *)
IsAddition(chunk1, chunk2) == ~Truthy(chunk1) /\ Truthy(chunk2)

(* comparator.py:48 *)
IsDeletion(chunk1, chunk2) ==
    ~IsAddition(chunk1, chunk2) /\ Truthy(chunk1) /\ ~Truthy(chunk2)

(* comparator.py:54 *)
IsDifferent(chunk1, chunk2) ==
    ~IsAddition(chunk1, chunk2) /\ ~IsDeletion(chunk1, chunk2) /\ chunk1 # chunk2

(* comparator.py:76 *)
ReportsChange(response) == ~IsSubstring(WordsNoChanges, lower(response))

(* comparator.py:44-47, 50-53 *)
ContentRecord(position, chunk) ==
    [position |-> position, content |-> Take(chunk, ChunkPreviewLimit)]

(* comparator.py:77-82 *)
ModificationRecord(position, chunk1, chunk2, summary) ==
    [position |-> position,
     original |-> Take(chunk1, ChunkPreviewLimit),
     modified |-> Take(chunk2, ChunkPreviewLimit),
     summary |-> summary]

CompareResultCountingReturned(adds, dels, mods, summary, d1, d2) ==
    [additions |-> Take(adds, RecordsLimit),
     deletions |-> Take(dels, RecordsLimit),
     modifications |-> Take(mods, RecordsLimit),
     overall_summary |-> summary,
     similarity_score |-> similarity(d1, d2),
     doc1_length |-> Len(d1),
     doc2_length |-> Len(d2),
     total_changes |-> Len(Take(adds, RecordsLimit)) + Len(Take(dels, RecordsLimit))
                           + Len(Take(mods, RecordsLimit))]

(* comparator.py:106-118 *)
CompareResult(adds, dels, mods, summary, d1, d2) ==
    [additions |-> Take(adds, RecordsLimit),
     deletions |-> Take(dels, RecordsLimit),
     modifications |-> Take(mods, RecordsLimit),
     overall_summary |-> summary,
     similarity_score |-> similarity(d1, d2),
     doc1_length |-> Len(d1),
     doc2_length |-> Len(d2),
     total_changes |-> Len(adds) + Len(dels) + Len(mods)]

CompareCall(step, position, first, second, outcome) ==
    [step |-> step, position |-> position, first |-> first, second |-> second,
     outcome |-> outcome]

InitCompare ==
    /\ IdleChunk
    /\ IdleStrip
    /\ IdleConv
    /\ IdleSum
    /\ IdleClass
    /\ IdleExtract
    /\ IdleSim
    /\ api_key \in BOOLEAN
    /\ cmp_pc = "call"
    /\ \E pair \in ComparePairs :
          /\ cmp_doc1 = pair[1]
          /\ cmp_doc2 = pair[2]
    /\ chunks1 = << >>
    /\ chunks2 = << >>
    /\ cmp_i = 0
    /\ additions = << >>
    /\ deletions = << >>
    /\ modifications = << >>
    /\ cmp_calls = << >>
    /\ cmp_return = None

(* comparator.py:24, llm.py:29-31: get_llm raises without a credential *)
CompareNoCredential ==
    /\ cmp_pc = "call"
    /\ ~api_key
    /\ cmp_pc' = "raised"
    /\ UNCHANGED <<cmp_doc1, cmp_doc2, chunks1, chunks2, cmp_i, additions, deletions,
                   modifications, cmp_calls, cmp_return>>
    /\ UNCHANGED <<api_key, notCompare>>

(* comparator.py:24-36: chunk both documents *)
CompareEnter ==
    /\ cmp_pc = "call"
    /\ api_key
    /\ chunks1' = chunk_text(cmp_doc1, CompareChunkSize, CompareOverlap)
    /\ chunks2' = chunk_text(cmp_doc2, CompareChunkSize, CompareOverlap)
    /\ additions' = << >>
    /\ deletions' = << >>
    /\ modifications' = << >>
    /\ cmp_i' = 0
    /\ cmp_pc' = "loop"
    /\ UNCHANGED <<cmp_doc1, cmp_doc2, cmp_calls, cmp_return>>
    /\ UNCHANGED <<api_key, notCompare>>

(* comparator.py:38-47: an iteration that records an addition *)
CompareAddition ==
    /\ cmp_pc = "loop"
    /\ cmp_i < MaxChunksOf(chunks1, chunks2)
    /\ IsAddition(ChunkAt(chunks1, cmp_i), ChunkAt(chunks2, cmp_i))
    /\ additions' = Append(additions, ContentRecord(cmp_i, ChunkAt(chunks2, cmp_i)))
    /\ cmp_i' = cmp_i + 1
    /\ UNCHANGED <<cmp_pc, cmp_doc1, cmp_doc2, chunks1, chunks2, deletions, modifications,
                   cmp_calls, cmp_return>>
    /\ UNCHANGED <<api_key, notCompare>>

(* comparator.py:38-53: an iteration that records a deletion *)
CompareDeletion ==
    /\ cmp_pc = "loop"
    /\ cmp_i < MaxChunksOf(chunks1, chunks2)
    /\ IsDeletion(ChunkAt(chunks1, cmp_i), ChunkAt(chunks2, cmp_i))
    /\ deletions' = Append(deletions, ContentRecord(cmp_i, ChunkAt(chunks1, cmp_i)))
    /\ cmp_i' = cmp_i + 1
    /\ UNCHANGED <<cmp_pc, cmp_doc1, cmp_doc2, chunks1, chunks2, additions, modifications,
                   cmp_calls, cmp_return>>
    /\ UNCHANGED <<api_key, notCompare>>

(* comparator.py:38-54: an iteration over two equal chunks *)
CompareEqual ==
    /\ cmp_pc = "loop"
    /\ cmp_i < MaxChunksOf(chunks1, chunks2)
    /\ ~IsAddition(ChunkAt(chunks1, cmp_i), ChunkAt(chunks2, cmp_i))
    /\ ~IsDeletion(ChunkAt(chunks1, cmp_i), ChunkAt(chunks2, cmp_i))
    /\ ~IsDifferent(ChunkAt(chunks1, cmp_i), ChunkAt(chunks2, cmp_i))
    /\ cmp_i' = cmp_i + 1
    /\ UNCHANGED <<cmp_pc, cmp_doc1, cmp_doc2, chunks1, chunks2, additions, deletions,
                   modifications, cmp_calls, cmp_return>>
    /\ UNCHANGED <<api_key, notCompare>>

CompareModificationSkippingFailure ==
    /\ cmp_pc = "loop"
    /\ cmp_i < MaxChunksOf(chunks1, chunks2)
    /\ LET chunk1 == ChunkAt(chunks1, cmp_i)
           chunk2 == ChunkAt(chunks2, cmp_i)
       IN  /\ IsDifferent(chunk1, chunk2)
           /\ \E outcome \in CompareOutcomes :
                 /\ cmp_calls' = Append(cmp_calls,
                        CompareCall("chunk", cmp_i, Take(chunk1, ChunkPromptLimit),
                                    Take(chunk2, ChunkPromptLimit), outcome))
                 /\ IF outcome.ok
                    THEN /\ modifications' =
                               IF ReportsChange(outcome.text)
                               THEN Append(modifications,
                                        ModificationRecord(cmp_i, chunk1, chunk2,
                                                           outcome.text))
                               ELSE modifications
                         /\ cmp_i' = cmp_i + 1
                         /\ cmp_pc' = cmp_pc
                    ELSE /\ modifications' = modifications
                         /\ cmp_i' = cmp_i + 1
                         /\ cmp_pc' = cmp_pc
    /\ UNCHANGED <<cmp_doc1, cmp_doc2, chunks1, chunks2, additions, deletions, cmp_return>>
    /\ UNCHANGED <<api_key, notCompare>>

(* comparator.py:38-82: an iteration over two different chunks, with its call *)
CompareModification ==
    /\ cmp_pc = "loop"
    /\ cmp_i < MaxChunksOf(chunks1, chunks2)
    /\ LET chunk1 == ChunkAt(chunks1, cmp_i)
           chunk2 == ChunkAt(chunks2, cmp_i)
       IN  /\ IsDifferent(chunk1, chunk2)
           /\ \E outcome \in CompareOutcomes :
                 /\ cmp_calls' = Append(cmp_calls,
                        CompareCall("chunk", cmp_i, Take(chunk1, ChunkPromptLimit),
                                    Take(chunk2, ChunkPromptLimit), outcome))
                 /\ IF outcome.ok
                    THEN /\ modifications' =
                               IF ReportsChange(outcome.text)
                               THEN Append(modifications,
                                        ModificationRecord(cmp_i, chunk1, chunk2,
                                                           outcome.text))
                               ELSE modifications
                         /\ cmp_i' = cmp_i + 1
                         /\ cmp_pc' = cmp_pc
                    ELSE /\ UNCHANGED <<modifications, cmp_i>>
                         /\ cmp_pc' = "raised"
    /\ UNCHANGED <<cmp_doc1, cmp_doc2, chunks1, chunks2, additions, deletions, cmp_return>>
    /\ UNCHANGED <<api_key, notCompare>>

(* comparator.py:84-118: the whole-document call and the return *)
CompareOverall ==
    /\ cmp_pc = "loop"
    /\ ~(cmp_i < MaxChunksOf(chunks1, chunks2))
    /\ \E outcome \in CompareOutcomes :
          /\ cmp_calls' = Append(cmp_calls,
                 CompareCall("overall", cmp_i, Take(cmp_doc1, OverallPreviewLimit),
                             Take(cmp_doc2, OverallPreviewLimit), outcome))
          /\ IF outcome.ok
             THEN /\ cmp_return' = CompareResult(additions, deletions, modifications,
                                                 outcome.text, cmp_doc1, cmp_doc2)
                  /\ cmp_pc' = "done"
             ELSE /\ cmp_return' = cmp_return
                  /\ cmp_pc' = "raised"
    /\ UNCHANGED <<cmp_doc1, cmp_doc2, chunks1, chunks2, cmp_i, additions, deletions,
                   modifications>>
    /\ UNCHANGED <<api_key, notCompare>>

NextCompare ==
    \/ CompareNoCredential
    \/ CompareEnter
    \/ CompareAddition
    \/ CompareDeletion
    \/ CompareEqual
    \/ CompareModification
    \/ CompareOverall

SpecCompare == InitCompare /\ [][NextCompare]_vars

(* the positions at which the loop of compare_documents finds an addition *)
DetectedAdditions ==
    {p \in 0..(MaxChunksOf(chunks1, chunks2) - 1) :
        IsAddition(ChunkAt(chunks1, p), ChunkAt(chunks2, p))}

(* the positions at which the loop finds a deletion *)
DetectedDeletions ==
    {p \in 0..(MaxChunksOf(chunks1, chunks2) - 1) :
        IsDeletion(ChunkAt(chunks1, p), ChunkAt(chunks2, p))}

(* the positions for which the completion service reported a change *)
DetectedModifications ==
    {cmp_calls[k].position :
        k \in {n \in 1..Len(cmp_calls) :
                  /\ cmp_calls[n].step = "chunk"
                  /\ cmp_calls[n].outcome.ok
                  /\ ReportsChange(cmp_calls[n].outcome.text)}}

RecordPositions(records) == {records[k].position : k \in 1..Len(records)}

(* records holds the RecordsLimit lowest positions of detected, in order *)
FirstRecords(records, detected) ==
    /\ Len(records) <= 10
    /\ Len(records) = Min2(10, Cardinality(detected))
    /\ \A k \in 1..(Len(records) - 1) : records[k].position < records[k + 1].position
    /\ RecordPositions(records) \subseteq detected
    /\ \A p \in detected \ RecordPositions(records) :
           \A q \in RecordPositions(records) : q < p

(* C15: each returned list holds at most 10 records, the first 10 detected *)
(* in increasing position order, and total_changes is the sum of the       *)
(* uncapped numbers of detected additions, deletions and modifications.    *)
C15_CappedListsUncappedTotal ==
    cmp_pc = "done" =>
        /\ FirstRecords(cmp_return.additions, DetectedAdditions)
        /\ FirstRecords(cmp_return.deletions, DetectedDeletions)
        /\ FirstRecords(cmp_return.modifications, DetectedModifications)
        /\ cmp_return.total_changes =
               Cardinality(DetectedAdditions) + Cardinality(DetectedDeletions)
                   + Cardinality(DetectedModifications)
        /\ cmp_return.total_changes >=
               Len(cmp_return.additions) + Len(cmp_return.deletions)
                   + Len(cmp_return.modifications)

(* C15 witness: a comparison that detected more modifications than it returns *)
C15_Witness ==
    /\ cmp_pc = "done"
    /\ Len(cmp_return.modifications) = 10
    /\ cmp_return.total_changes > 10

----------------------------------------------------------------------------
(* The five entry points that use the completion service, one call of one  *)
(* of them per behaviour                                                   *)

InitPipelines == InitConv \/ InitSum \/ InitClass \/ InitExtract \/ InitCompare

NextPipelines == NextConv \/ NextSum \/ NextClass \/ NextExtract \/ NextCompare

SpecPipelines == InitPipelines /\ [][NextPipelines]_vars

(* some call of the log failed *)
SomeCallFailed(calls) == \E k \in 1..Len(calls) : ~calls[k].outcome.ok

(* a failed call is the last call of the log *)
NoCallAfterFailure(calls) == \A k \in 1..(Len(calls) - 1) : calls[k].outcome.ok

(* a pipeline whose log holds a failed call has raised, issued no call     *)
(* after it and returned nothing                                           *)
FailsImmediately(calls, pc, returned) ==
    /\ NoCallAfterFailure(calls)
    /\ SomeCallFailed(calls) => pc = "raised" /\ returned = None

(* C17: in summarize_document, classify_document, extract_information and  *)
(* compare_documents a failed completion-service call is the last call:    *)
(* nothing is called after it, it is not retried, and nothing is returned. *)
C17_FailurePropagates ==
    /\ FailsImmediately(sz_calls, sz_pc, sz_return)
    /\ FailsImmediately(cl_calls, cl_pc, cl_return)
    /\ FailsImmediately(ex_calls, ex_pc, ex_return)
    /\ FailsImmediately(cmp_calls, cmp_pc, cmp_return)

(* C17 witness: a comparison whose third call failed *)
C17_Witness ==
    /\ cmp_pc = "raised"
    /\ Len(cmp_calls) = 3
    /\ SomeCallFailed(cmp_calls)

(* the entry point has neither called the service nor returned *)
NothingDone(calls, pc, returned) ==
    /\ calls = << >>
    /\ pc \in {"idle", "call", "raised"}
    /\ returned = None

(* C18: without the credential every entry point, convert_to_json          *)
(* included, fails before any completion-service call, retries nothing and *)
(* returns no result, fallback or other.                                   *)
C18_NoCredentialNoCall ==
    ~api_key =>
        /\ NothingDone(cj_calls, cj_pc, cj_return)
        /\ NothingDone(sz_calls, sz_pc, sz_return)
        /\ NothingDone(cl_calls, cl_pc, cl_return)
        /\ NothingDone(ex_calls, ex_pc, ex_return)
        /\ NothingDone(cmp_calls, cmp_pc, cmp_return)
        /\ attempt = NotBound

(* C18 witness: convert_to_json, asked for three attempts, has failed      *)
(* without the credential                                                  *)
C18_Witness ==
    /\ ~api_key
    /\ cj_pc = "raised"
    /\ max_retries = MaxRetries

----------------------------------------------------------------------------
(* Properties of the rewritten prompts of convert_to_json *)

(* the call the last iteration made, if it made one *)
LastCallMade ==
    /\ attempt.bound
    /\ cj_calls # << >>
    /\ cj_calls[Len(cj_calls)].attempt = attempt.value

LastResponse == cj_calls[Len(cj_calls)].outcome

LastParsed == json_loads(ExtractJson(LastResponse.text))

(* the step is an iteration that sends the current prompt to the           *)
(* completion service                                                      *)
SendsCurrentPrompt ==
    /\ Len(cj_calls') = Len(cj_calls) + 1
    /\ cj_calls'[Len(cj_calls')].prompt = conversion_prompt

(* the last attempt parsed a structure without main_content and another    *)
(* attempt follows                                                         *)
RetryPromptPending ==
    /\ cj_pc = "loop"
    /\ LastCallMade
    /\ LastResponse.ok
    /\ LastParsed.ok
    /\ ~MembershipRaises(LastParsed.value)
    /\ MissingFields(LastParsed.value) # << >>

(* the step sends the prompt that carries the incomplete JSON *)
RetryPromptSent ==
    /\ SendsCurrentPrompt
    /\ conversion_prompt.template = "retry"
    /\ conversion_prompt.previous_json = LastParsed.value

(* C19: after an attempt that parsed a structure without main_content,     *)
(* with retries remaining, the next attempt sends the rewritten prompt     *)
(* that carries the previous incomplete JSON to the completion service.    *)
C19_RetryPromptIsSent == [][RetryPromptPending => RetryPromptSent]_vars

(* the last attempt's response did not parse and another attempt follows *)
FixPromptPending ==
    /\ cj_pc = "loop"
    /\ LastCallMade
    /\ LastResponse.ok
    /\ ~LastParsed.ok

(* the step sends the prompt that carries the invalid text and the message *)
FixPromptSent ==
    /\ SendsCurrentPrompt
    /\ conversion_prompt.template = "fix"
    /\ conversion_prompt.invalid_json = ExtractJson(LastResponse.text)
    /\ conversion_prompt.error = LastParsed.value.message

(* the step is the last attempt and its response does not parse *)
LastAttemptFailsToParse ==
    /\ cj_pc = "loop"
    /\ Len(cj_calls') = Len(cj_calls) + 1
    /\ IsLastAttempt(attempt'.value, max_retries)
    /\ cj_calls'[Len(cj_calls')].outcome.ok
    /\ ~json_loads(ExtractJson(cj_calls'[Len(cj_calls')].outcome.text)).ok

(* C20: after an attempt whose response did not parse, with retries        *)
(* remaining, the next attempt sends the rewritten prompt that carries the *)
(* invalid text and the parser's message; a parse failure of the last      *)
(* attempt yields the fallback instead.                                    *)
C20_FixPromptIsSent ==
    [][/\ FixPromptPending => FixPromptSent
       /\ LastAttemptFailsToParse => result' = ParseFallback(cj_document)]_vars

-----------------------------------------------------------------------------
(* Properties of the iterations of convert_to_json *)

(* what json_convertor.py:55-68 parses out of the i-th call's response *)
ParsedAt(i) == json_loads(ExtractJson(cj_calls[i].outcome.text))

(* the i-th call's response parsed to a structure holding main_content *)
SucceededAt(i) ==
    /\ cj_calls[i].outcome.ok
    /\ ParsedAt(i).ok
    /\ ~MembershipRaises(ParsedAt(i).value)
    /\ Contains(ParsedAt(i).value, "main_content")

(* C21: a call whose response parses to a structure with main_content is   *)
(* the last call, the loop is left, and the returned json is that          *)
(* structure with retries_used the 1-based index of its attempt.           *)
C21_StopsAtFirstSuccess ==
    \A i \in 1..Len(cj_calls) :
        SucceededAt(i) =>
            /\ i = Len(cj_calls)
            /\ cj_pc \in {"return", "done"}
            /\ result = ParsedAt(i).value
            /\ cj_pc = "done" =>
                  /\ cj_return.json = ParsedAt(i).value
                  /\ cj_return.retries_used = cj_calls[i].attempt + 1

(* C21 witness: the second call of three allowed attempts succeeded *)
C21_Witness ==
    /\ cj_pc = "done"
    /\ max_retries = 3
    /\ Len(cj_calls) = 2
    /\ SucceededAt(2)
    /\ cj_return.retries_used = 2
    /\ cj_return.json = ParsedAt(2).value

(* the step is an attempt whose completion-service call fails *)
ServiceCallFails ==
    /\ cj_pc = "loop"
    /\ Len(cj_calls') = Len(cj_calls) + 1
    /\ ~cj_calls'[Len(cj_calls')].outcome.ok

(* the fallback of json_convertor.py:124-127 for the message of the        *)
(* failure of the call just made                                           *)
ConversionFailed ==
    Dict([main_content |-> Take(cj_document, MainContentLimit),
          error |-> <<"Conversion failed: ">> \o cj_calls'[Len(cj_calls')].outcome.text])

(* convert_to_json raises only for the missing credential, before any call *)
RaisedOnlyWithoutCredential == (cj_pc = "raised") => (~api_key /\ cj_calls = << >>)

(* C22: an attempt whose service call fails keeps the prompt and goes on   *)
(* to the next attempt when it is not the last one, and on the last one    *)
(* sets the result to the "Conversion failed: <message>" fallback and      *)
(* leaves the loop; the failure does not reach the caller.                 *)
C22_ServiceFailureIsAbsorbed ==
    /\ []RaisedOnlyWithoutCredential
    /\ [][ServiceCallFails =>
             /\ conversion_prompt' = conversion_prompt
             /\ IF IsLastAttempt(attempt'.value, max_retries)
                THEN /\ result' = ConversionFailed
                     /\ cj_pc' = "return"
                ELSE /\ result' = result
                     /\ cj_pc' = "loop"]_vars

(* C22 witness: the first call failed, the second and last call failed     *)
(* too, and the fallback carrying the message was returned                 *)
C22_Witness ==
    /\ cj_pc = "done"
    /\ max_retries = 2
    /\ Len(cj_calls) = 2
    /\ ~cj_calls[1].outcome.ok
    /\ ~cj_calls[2].outcome.ok
    /\ cj_calls[2].prompt = cj_calls[1].prompt
    /\ cj_return.json = FailureFallback(cj_document, ServiceError(cj_calls[2].outcome.text))

-----------------------------------------------------------------------------
(* Properties of the calls of classify_document *)

(* the confidence that classifier.py:69-72 reads from the first response *)
FirstPassConfidence ==
    IF HoldsIgnoringCase(WordHigh, FirstResponse) THEN "high"
    ELSE IF HoldsIgnoringCase(WordLow, FirstResponse) THEN "low"
    ELSE "medium"

CallsOfStep(step) == {i \in 1..Len(cl_calls) : cl_calls[i].step = step}

(* C23: the re-evaluation call is made exactly when the confidence read    *)
(* from the first response is medium or low, and once at most; a run that  *)
(* returns made the indicators call once, last, for the final category,    *)
(* after 2 calls (confidence high) or 3 calls (otherwise).                 *)
C23_ClassifierCallSequence ==
    /\ Cardinality(CallsOfStep("reevaluation")) <= 1
    /\ Cardinality(CallsOfStep("indicators")) <= 1
    /\ (cl_calls # << >> /\ cl_calls[1].outcome.ok) =>
          /\ cl_pc \in {"reeval", "indicators"} =>
                (cl_pc = "reeval" <=>
                    (Len(cl_calls) = 1 /\ FirstPassConfidence \in {"medium", "low"}))
          /\ Len(cl_calls) >= 2 =>
                (cl_calls[2].step = "reevaluation" <=>
                    FirstPassConfidence \in {"medium", "low"})
    /\ cl_pc = "done" =>
          /\ CallsOfStep("indicators") = {Len(cl_calls)}
          /\ cl_calls[Len(cl_calls)].category = cl_return.category
          /\ Len(cl_calls) = IF FirstPassConfidence = "high" THEN 2 ELSE 3

(* C23 witness: a first response without a confidence word led to three    *)
(* calls, the re-evaluation second and the indicators call last.           *)
C23_Witness ==
    /\ cl_pc = "done"
    /\ FirstPassConfidence = "medium"
    /\ Len(cl_calls) = 3
    /\ cl_calls[2].step = "reevaluation"
    /\ cl_calls[3].step = "indicators"
    /\ cl_calls[3].category = cl_return.category

(* the category that classifier.py:53-67 reads from the first response *)
FirstPassCategoryRead ==
    IF NamesResearchPaper(FirstResponse) THEN ResearchPaper
    ELSE IF \E k \in 1..Len(categories) : HoldsIgnoringCase(categories[k], FirstResponse)
         THEN categories[CHOOSE k \in 1..Len(categories) :
                  /\ HoldsIgnoringCase(categories[k], FirstResponse)
                  /\ \A j \in 1..(k - 1) : ~HoldsIgnoringCase(categories[j], FirstResponse)]
         ELSE Other

(* the re-evaluation call returned a response *)
Reevaluated ==
    /\ Len(cl_calls) >= 2
    /\ cl_calls[2].step = "reevaluation"
    /\ cl_calls[2].outcome.ok

SecondResponse == cl_calls[2].outcome.text

NamesCategory(response) ==
    \/ NamesResearchPaper(response)
    \/ \E k \in 1..Len(categories) : HoldsIgnoringCase(categories[k], response)

NamesConfidence(response) ==
    HoldsIgnoringCase(WordHigh, response) \/ HoldsIgnoringCase(WordLow, response)

(* C24 as stated: after the re-evaluation the category and the confidence  *)
(* are what the first-pass rule, defaults other and medium included, reads *)
(* from the second response alone.                                         *)
C24_ReevaluationOverwrites ==
    Reevaluated =>
        /\ category = FirstPassCategory(lower(SecondResponse))
        /\ confidence = ParseConfidence(lower(SecondResponse), "medium")

(* C24 amended: after the re-evaluation the category is the one the second *)
(* response names (research paper spellings first, then the first name of  *)
(* the enumeration it holds) and the first-pass category when it names     *)
(* none; the confidence is high or low as the second response says (high   *)
(* first) and the first-pass confidence when it says neither.              *)
C24_ReevaluationUpdates ==
    Reevaluated =>
        /\ category = IF NamesCategory(SecondResponse)
                      THEN FirstPassCategory(lower(SecondResponse))
                      ELSE FirstPassCategoryRead
        /\ confidence = IF NamesConfidence(SecondResponse)
                        THEN ParseConfidence(lower(SecondResponse), "medium")
                        ELSE FirstPassConfidence

(* C24 witness: the first response said research_paper with low            *)
(* confidence, the second named neither a category nor a confidence, and   *)
(* the first-pass values were returned.                                    *)
C24_Witness ==
    /\ cl_pc = "done"
    /\ Reevaluated
    /\ ~NamesCategory(SecondResponse)
    /\ ~NamesConfidence(SecondResponse)
    /\ FirstPassConfidence = "low"
    /\ cl_return.category = ResearchPaper
    /\ cl_return.confidence = "low"

-----------------------------------------------------------------------------
(* Properties of the chunks of chunk_text *)

(* the characters of the i-th window before any adjustment, cleaner.py:53 *)
FullWindow(i) == PySlice(text, windows[i].start, windows[i].start + chunk_size)

(* the i-th window stops short of the end of the text, cleaner.py:56 *)
StopsShort(i) == windows[i].start + chunk_size < Len(text)

(* the last '.' or newline of the i-th window lies after its midpoint *)
BreaksAfterMidpoint(i) == BreakPoint(FullWindow(i)) > chunk_size \div 2

(* C25: a window that stops short of the end of the text, at offset 0 or   *)
(* later, ends right after its last '.' or newline when that character     *)
(* lies after the window's midpoint, and at chunk_size characters          *)
(* otherwise.                                                              *)
C25_BreaksAfterWindowMidpoint ==
    \A i \in 1..Len(windows) :
        StopsShort(i) =>
            windows[i].end = IF BreaksAfterMidpoint(i)
                             THEN windows[i].start + BreakPoint(FullWindow(i)) + 1
                             ELSE windows[i].start + chunk_size

(* the same, for windows at offset 0 only *)
FirstWindowBreaksAfterMidpoint ==
    \A i \in 1..Len(windows) :
        (StopsShort(i) /\ windows[i].start = 0) =>
            windows[i].end = IF BreaksAfterMidpoint(i)
                             THEN BreakPoint(FullWindow(i)) + 1
                             ELSE chunk_size

(* C29: every chunk is at most chunk_size characters long and is a run of  *)
(* consecutive characters of the text.                                     *)
C29_ChunksAreBoundedSubstrings ==
    \A i \in 1..Len(chunks) :
        /\ Len(chunks[i]) <= chunk_size
        /\ IsSubstring(chunks[i], text)

(* C29 witness: a returned list of several chunks, one of them cut at a    *)
(* sentence boundary and one as long as chunk_size                         *)
C29_Witness ==
    /\ ct_pc = "done"
    /\ Len(chunks) >= 3
    /\ \E i \in 1..Len(windows) : windows[i].adjusted
    /\ \E i \in 1..Len(chunks) : Len(chunks[i]) = chunk_size
    /\ \E i \in 1..Len(chunks) : Len(chunks[i]) < chunk_size /\ chunks[i] # << >>

-----------------------------------------------------------------------------
(* Properties of the calls of extract_information *)

ExtractCallsOfStep(step) == {i \in 1..Len(ex_calls) : ex_calls[i].step = step}

(* extractor.py:33-47: the types served by the patterns alone *)
PatternOnlyTypes == {"emails", "dates", "totals", "phone_numbers"}

(* the tracks are done: the run is at the validation step or has returned *)
TracksDone == ex_pc \in {"validate", "done"}

(* C26: at most 2 calls are made; the model-track call is made exactly for *)
(* the types names, keywords and all; the validation call is made, after   *)
(* the tracks, exactly when the merged mapping has a field; a type that    *)
(* matches no track makes no call and returns total_items = 0.             *)
C26_ExtractorCallSequence ==
    /\ Len(ex_calls) <= 2
    /\ ExtractCallsOfStep("extraction") \subseteq {1}
    /\ extraction_type \in PatternOnlyTypes => ExtractCallsOfStep("extraction") = {}
    /\ TracksDone =>
          (ExtractCallsOfStep("extraction") = {1}
              <=> extraction_type \in {"names", "keywords", "all"})
    /\ ex_pc = "validate" =>
          /\ extracted # << >>
          /\ ExtractCallsOfStep("validation") = {}
    /\ \A i \in ExtractCallsOfStep("validation") :
          /\ i = Len(ex_calls)
          /\ ex_calls[i].extracted # << >>
    /\ ex_pc = "done" =>
          /\ ExtractCallsOfStep("validation") = {} <=> ex_return.extracted = << >>
          /\ extraction_type \notin PatternOnlyTypes \cup {"names", "keywords", "all"} =>
                /\ ex_calls = << >>
                /\ ex_return.total_items = 0

(* C26 witness: a keywords extraction whose response holds no keyword      *)
(* section merged no field, so the model-track call was the only call.     *)
C26_Witness ==
    /\ ex_pc = "done"
    /\ extraction_type = "keywords"
    /\ Len(ex_calls) = 1
    /\ ex_calls[1].step = "extraction"
    /\ ex_return.extracted = << >>
    /\ ex_return.total_items = 0

-----------------------------------------------------------------------------
(* Properties of the chunk loop of compare_documents *)

(* the chunk sequence has an element at index p (0-based) *)
IndexExists(chunk_list, p) == p < Len(chunk_list)

AlignedIndices == 0..(MaxChunksOf(chunks1, chunks2) - 1)

(* C28: an addition is recorded at index i exactly when i exists only in   *)
(* doc2's chunk sequence, a deletion exactly when i exists only in doc1's; *)
(* an index that exists in both sequences gives neither.                   *)
C28_RecordsFollowIndexExistence ==
    cmp_pc = "done" =>
        \A p \in AlignedIndices :
            /\ p \in RecordPositions(additions) <=>
                  (~IndexExists(chunks1, p) /\ IndexExists(chunks2, p))
            /\ p \in RecordPositions(deletions) <=>
                  (IndexExists(chunks1, p) /\ ~IndexExists(chunks2, p))

(* the positions of the per-chunk calls, in the order of the calls *)
ChunkCallPositions ==
    [k \in 1..(Len(cmp_calls) - 1) |-> cmp_calls[k].position]

(* both sequences have a chunk at index p and the two chunks differ *)
PresentAndUnequal(p) ==
    /\ IndexExists(chunks1, p)
    /\ IndexExists(chunks2, p)
    /\ chunks1[p + 1] # chunks2[p + 1]

(* both chunks at index p are non-empty and they differ *)
NonEmptyAndUnequal(p) ==
    /\ ChunkAt(chunks1, p) # << >>
    /\ ChunkAt(chunks2, p) # << >>
    /\ ChunkAt(chunks1, p) # ChunkAt(chunks2, p)

(* a returned comparison made one per-chunk call for each index of         *)
(* expected, in increasing order, and then the whole-document call         *)
CallsAre(expected) ==
    /\ cmp_calls # << >>
    /\ cmp_calls[Len(cmp_calls)].step = "overall"
    /\ \A k \in 1..(Len(cmp_calls) - 1) : cmp_calls[k].step = "chunk"
    /\ \A k \in 1..(Len(cmp_calls) - 2) : ChunkCallPositions[k] < ChunkCallPositions[k + 1]
    /\ Range(ChunkCallPositions) = expected
    /\ Len(cmp_calls) = Cardinality(expected) + 1

(* a document compared with itself: one call, no record, similarity 1 *)
SelfComparison ==
    cmp_doc1 = cmp_doc2 =>
        /\ Len(cmp_calls) = 1
        /\ cmp_return.additions = << >>
        /\ cmp_return.deletions = << >>
        /\ cmp_return.modifications = << >>
        /\ cmp_return.total_changes = 0
        /\ cmp_return.similarity_score.num = cmp_return.similarity_score.den

(* C27: one call for each aligned index at which both chunks are present   *)
(* and unequal, in increasing index order, then exactly one                *)
(* whole-document call, the last; equal pairs give no call and no record,  *)
(* so a document compared with itself gives 1 call, no record,             *)
(* total_changes = 0 and similarity_score = 1.                             *)
C27_OneCallPerUnequalPair ==
    cmp_pc = "done" =>
        /\ CallsAre({p \in AlignedIndices : PresentAndUnequal(p)})
        /\ \A p \in AlignedIndices :
              ChunkAt(chunks1, p) = ChunkAt(chunks2, p) =>
                  p \notin RecordPositions(additions) \cup RecordPositions(deletions)
                               \cup RecordPositions(modifications)
        /\ SelfComparison

(* the same with the calls made for the pairs of non-empty chunks only *)
OneCallPerNonEmptyUnequalPair ==
    cmp_pc = "done" =>
        /\ CallsAre({p \in AlignedIndices : NonEmptyAndUnequal(p)})
        /\ SelfComparison

====
